---- MODULE Spec2Model ----
(***************************************************************************)
(* A model of the UniCrime preprocessing pipeline:                         *)
(*   - the per-institution normalizers (process_*_csv) together with the   *)
(*     shared geocoder and its persistent cache (preprocess/shared.py);    *)
(*   - the collectors that merge several fetches (get_psu_data.py,         *)
(*     get_northwestern_data.py, get_data/get_umich_data.py,               *)
(*     get_purdue_data.py, get_nebraska_data.py);                          *)
(*   - the label/value table parser (parse_blotter_table).                 *)
(*                                                                         *)
(* Conventions.  An optional value is a sequence of length 0 (None, NaN,   *)
(* NaT, pd.NA) or 1 (the value).  A raw CSV cell as pandas.read_csv gives  *)
(* it is a tagged tuple: <<"nan">> (missing), <<"num", n>> (a number),     *)
(* <<"str", text>> (a text, as the sequence of its comma-separated         *)
(* components and whether whitespace surrounds it), or                     *)
(* <<"time", wellformed, instant>> (a text meant as a date-time, well      *)
(* formed or not under the grammar of the institution that reads it).      *)
(***************************************************************************)
EXTENDS Integers, Sequences, FiniteSets, TLC

VARIABLES
    \* ---- normalizer + geocode cache ----
    inst,        \* which process_<inst>_csv the runs execute
    csv,         \* the raw CSV of that institution (a sequence of raw rows)
    city,        \* City of the school code in the federal CSV (None: no entry)
    cacheFile,   \* geocode_cache.json: a dict key -> pair or null
    pc,          \* "idle" | "run" | "failed" ("off": no normalizer in this specification)
    runsLeft,    \* runs still allowed (bound)
    geocode,     \* parameter geocode of the current / last run
    useFile,     \* parameter use_geocode_cache_file of the current / last run
    apiKey,      \* GOOGLE_MAPS_API_KEY is set during the current / last run
    out,         \* the DataFrame `out` of the current / last run
    idx,         \* position of the geocode loop in out (1-based)
    cache,       \* the in-memory cache dict of the current / last run
    rowLog,      \* per row of out: how the resolver treated it (history)
    extCalls,    \* sequence of the keys sent to the external geocoder in this run (history)
    succeeded,   \* keys an external call resolved, in runs that use the cache file (history)
    failed,      \* keys whose external lookup failed in an earlier, finished run (history)
    failedNow,   \* keys whose external lookup failed in the current run (history)
    columns,     \* the column set of the CSV (df.columns)
    n_dropped,   \* the drop count the current / last run logged
    ioLog,       \* this run's cache file loads, resolver calls and saves, in order (history)
    \* ---- collectors ----
    src,          \* which collector's main() runs
    site,         \* what the remote host serves: one response per page (static)
    tail,         \* what the host serves past its last page: "empty" | "repeat"
    queue,        \* the pages main() iterates over (positions in site), in order
    page,         \* PSU: the variable page; others: how many of queue are done
    all_records,  \* the list main() writes to the CSV
    seen_numbers, \* the identifiers kept so far (seen_numbers / keys of all_records)
    fetched,      \* the pages whose fetch returned records, in fetch order (history)
    requests,     \* number of HTTP requests sent to the host so far (history)
    gap,          \* since the last request: "first" (none yet) | "slept" | "none"
    mpc,          \* "off" | "index" | "loop" | "done" | "crashed"
    posts,        \* the POSTs of fetch_archive, in order: form data and status (history)
    first,        \* the first response fetch_archive got: None or Some(response) (history)
    \* ---- label/value table parser ----
    table,        \* the rows (tr) of the table the page holds
    pos,          \* the row the loop of parse_blotter_table is at (1-based)
    current,      \* the open record: None or Some(record)
    records,      \* the list parse_blotter_table returns
    bpc,          \* "off" | "find" | "rows" | "done"
    \* ---- optional text fields ----
    cell,         \* the text of one CSV cell of an optional column (a sequence of characters)
    fieldName,    \* the column it is in: "description" | "disposition" | "narrative"
    module,       \* the normalizer that reads it: "shared" | "legacy" | "umich"
    emitted,      \* the value of the field in `out`: None or Some(text)
    cpc,          \* "off" | "read" | "done"
    \* ---- header mapping of the table collectors ----
    hsrc,         \* "purdue" | "nebraska": whose header loop runs
    headers,      \* the texts of the header row, one per column (each a sequence of words)
    hi,           \* the loop index i over headers (0-based)
    header_map,   \* header_map / col_map: raw field -> column index
    hpc,          \* "off" | "map" | "row" | "done"
    cells,        \* cell_texts of one data row of the table
    hrow,         \* the row dict built from it: None (row skipped) or Some(row)
    \* ---- one article of the PSU daily log ----
    occurred_raw, \* the text of its "occurred" field, as a sequence of words
    offenses,     \* the text of its "offenses" field
    arec,         \* the dict parse_article returns: None (not parsed yet) or Some(dict)
    apc,          \* "off" | "parse" | "done"
    \* ---- two normalizer runs at once on one cache file ----
    shared,       \* the cache file the two runs share
    before,       \* the entries the file held before the runs
    work,         \* per run: the cache keys of its rows, in row order
    wi,           \* per run: how many rows have been resolved
    wcache,       \* per run: its in-memory cache
    resolved,     \* per run: the keys its lookups resolved
    wpc           \* per run: "off" | "load" | "rows" | "dump" | "done"

normVars == <<inst, csv, city, cacheFile, pc, runsLeft, geocode, useFile, apiKey,
              out, idx, cache, rowLog, extCalls, succeeded, failed, failedNow,
              columns, n_dropped, ioLog>>

mergeVars == <<src, site, tail, queue, page, all_records, seen_numbers, fetched,
               requests, gap, mpc, posts, first>>

blotVars == <<table, pos, current, records, bpc>>

cleanVars == <<cell, fieldName, module, emitted, cpc>>

headVars == <<hsrc, headers, hi, header_map, hpc, cells, hrow>>

artVars == <<occurred_raw, offenses, arec, apc>>

raceVars == <<shared, before, work, wi, wcache, resolved, wpc>>

vars == <<normVars, mergeVars, blotVars, cleanVars, artVars, raceVars, headVars>>

-----------------------------------------------------------------------------
(* Bounds *)
MaxRows == 2
MaxRuns == 2
\* a CSV that lacks a column has at most this many rows
MaxRowsDrift == 1

-----------------------------------------------------------------------------
(* Optional values and raw cells *)
None == <<>>
Some(v) == <<v>>
IsNone(o) == o = <<>>

NaNCell == <<"nan">>
IsNaNCell(c) == c[1] = "nan"

\* A text: its comma-separated components, and whether whitespace surrounds it.
Text(pad, parts) == [pad |-> pad, parts |-> parts]
NanText == Text(FALSE, <<"nan">>)

\* Series.astype(str): a missing cell becomes the text "nan", a text stays.
AsStr(c) == IF c[1] = "str" THEN c[2] ELSE NanText

\* str.strip()
Strip(s) == [s EXCEPT !.pad = FALSE]

\* not str(s).strip()
IsBlank(s) == Strip(s).parts = <<>>

\* "," in s
HasComma(s) == Len(s.parts) > 1

\* pd.to_numeric(errors="coerce") of one cell
ToNumeric(c) == IF c[1] = "num" THEN Some(c[2]) ELSE None

\* pd.to_datetime(..., utc=True, errors="coerce") of one cell under the
\* institution's grammar: the instant, or NaT.
ParseDatetime(c) == IF c[1] = "time" /\ c[2] THEN Some(c[3]) ELSE None

-----------------------------------------------------------------------------
(* The institutions and what distinguishes their normalizers *)
Institutions == {"uiuc", "umich", "osu", "psu", "nebraska", "northwestern",
                 "michstate", "purdue"}

\* region= argument of geocode_location
Region(i) ==
    CASE i \in {"uiuc", "northwestern"} -> "Illinois, USA"
      [] i \in {"umich", "michstate"}   -> "Michigan, USA"
      [] i = "osu"                      -> "Ohio, USA"
      [] i = "psu"                      -> "Pennsylvania, USA"
      [] i = "nebraska"                 -> "Nebraska, USA"
      [] i = "purdue"                   -> "Indiana, USA"

\* _school_code_from_filename of the file main() processes
SchoolCode(i) ==
    CASE i = "uiuc"         -> "001775"
      [] i = "umich"        -> "002325"
      [] i = "osu"          -> "003090"
      [] i = "psu"          -> "003329"
      [] i = "nebraska"     -> "002565"
      [] i = "northwestern" -> "001739"
      [] i = "michstate"    -> "002290"
      [] i = "purdue"       -> "001825"

\* The normalizers that read the latitude / longitude columns of the CSV
ReadsCoords(i) == i \in {"umich", "purdue", "psu", "nebraska", "northwestern"}

\* The normalizers whose geocode loop skips a blank location itself
SkipsBlank(i) == i \in {"osu", "psu", "nebraska", "northwestern", "michstate", "purdue"}

UnknownLocation == Text(FALSE, <<"Unknown Location">>)
EmptyText == Text(FALSE, <<>>)

\* Mutant of ValidMask: the mask is taken from the report time
ValidMaskReportOnly(i, row) == ParseDatetime(row.Reported) # None

\* valid_mask of one raw row: the occurred time parses (UIUC: and the report time)
ValidMask(i, row) ==
    /\ ParseDatetime(row.Occurred) # None
    /\ (i = "uiuc" => ParseDatetime(row.Reported) # None)

\* _str_series of process_michstate_csv, one cell
StrSeries(c) ==
    LET t == Strip(AsStr(c)) IN IF t = NanText THEN EmptyText ELSE t

\* The location column of `out` before the city backfill
LocationOf(i, row) ==
    CASE i = "northwestern" ->
            IF IsNaNCell(row.Location) THEN UnknownLocation
            ELSE LET t == Strip(AsStr(row.Location)) IN
                 IF t.parts \in {<<"NA">>, <<"nan">>, <<"<NA>">>, <<>>}
                 THEN UnknownLocation ELSE t
      [] i = "michstate" ->
            LET addr == StrSeries(row.Location)
                bld  == StrSeries(row.Building)
            IN IF addr # EmptyText THEN addr ELSE bld
      [] OTHER -> AsStr(row.Location)

\* Mutant of HasCsvCoords: the longitude is not tested
HasCsvCoordsLatOnly(i, row) == ReadsCoords(i) /\ ToNumeric(row.latitude) # None

\* has_csv_coords of one raw row
HasCsvCoords(i, row) ==
    /\ ReadsCoords(i)
    /\ ToNumeric(row.latitude) # None
    /\ ToNumeric(row.longitude) # None

\* One row of the DataFrame `out` as the constructor builds it
OutRow(i, row) ==
    [ school_code       |-> SchoolCode(i),
      case_number       |-> row.Number,
      report_datetime   |-> ParseDatetime(row.Reported),
      occurred_datetime |-> ParseDatetime(row.Occurred),
      location          |-> LocationOf(i, row),
      latitude          |-> IF HasCsvCoords(i, row) THEN ToNumeric(row.latitude) ELSE None,
      longitude         |-> IF HasCsvCoords(i, row) THEN ToNumeric(row.longitude) ELSE None ]

\* df.loc[valid_mask].reset_index(drop=True): the rows kept, in input order
RECURSIVE KeepValid(_, _)
KeepValid(i, rows) ==
    IF rows = <<>> THEN <<>>
    ELSE IF ValidMask(i, Head(rows))
         THEN <<Head(rows)>> \o KeepValid(i, Tail(rows))
         ELSE KeepValid(i, Tail(rows))

\* city.title() for the city names of the model
Title(c) == IF c = "URBANA" THEN "Urbana" ELSE c

\* Mutant of BackfillCity: the city is appended to a location with a comma too
BackfillAlways(loc, cityOpt) ==
    IF cityOpt = None THEN loc
    ELSE IF IsBlank(loc) THEN loc
    ELSE Text(FALSE, Append(Strip(loc).parts, Title(cityOpt[1])))

\* ensure_location_has_city, one location; cityOpt is city_lookup.get(school_code)
BackfillCity(loc, cityOpt) ==
    IF cityOpt = None THEN loc
    ELSE IF IsBlank(loc) THEN loc
    ELSE IF ~HasComma(loc)
         THEN Text(FALSE, Append(Strip(loc).parts, Title(cityOpt[1])))
         ELSE loc

\* Mutant of ensure_location_has_city: no location is touched
EnsureNothing(o, cityOpt) == o

ensure_location_has_city(o, cityOpt) ==
    [k \in DOMAIN o |-> [o[k] EXCEPT !.location = BackfillCity(@, cityOpt)]]

\* process_<inst>_csv up to the geocode loop: filter, build `out`, backfill
BuildOut(i, rows, cityOpt) ==
    LET kept == KeepValid(i, rows)
        o    == [k \in DOMAIN kept |-> OutRow(i, kept[k])]
    IN ensure_location_has_city(o, cityOpt)

-----------------------------------------------------------------------------
(* The geocode cache and the geocoder (preprocess/shared.py) *)

\* Python dicts: functions with a finite domain
EmptyDict == [k \in {} |-> None]
Put(d, k, v) == [x \in (DOMAIN d) \cup {k} |-> IF x = k THEN v ELSE d[x]]

\* The components of region ("Illinois, USA" is <<"Illinois", "USA">>)
RegionParts(r) ==
    CASE r = "Illinois, USA"     -> <<"Illinois", "USA">>
      [] r = "Michigan, USA"     -> <<"Michigan", "USA">>
      [] r = "Ohio, USA"         -> <<"Ohio", "USA">>
      [] r = "Pennsylvania, USA" -> <<"Pennsylvania", "USA">>
      [] r = "Nebraska, USA"     -> <<"Nebraska", "USA">>
      [] r = "Indiana, USA"      -> <<"Indiana", "USA">>

\* query = f"{location}, {region}" with location stripped: the cache key
Query(loc, region) == Strip(loc).parts \o RegionParts(region)

\* A cached value that counts as a hit: the key is there and its value is not null
IsHit(c, key) == key \in DOMAIN c /\ c[key] # None

\* Mutant of _load_geocode_cache: the file is never read
LoadNothing(file) == EmptyDict

\* _load_geocode_cache: {} for a missing or unreadable file, else its entries
\* (a null value is kept as None)
_load_geocode_cache(file) ==
    IF file.state = "ok" THEN file.data ELSE EmptyDict

\* Mutant of _save_geocode_cache: every entry is written, null ones too
SaveUnfiltered(c) == [state |-> "ok", data |-> c]

\* _save_geocode_cache: rewrite the file with the non-null entries only
_save_geocode_cache(c) ==
    [ state |-> "ok",
      data  |-> [k \in {x \in DOMAIN c : c[x] # None} |-> c[k]] ]

\* Coordinates are integers in units of 1e-8 degree; round(x, 7)
Round7(x) == ((x + 5) \div 10) * 10

\* What the geocoding service may answer to one request
ApiResponses ==
    { [kind |-> "EXCEPTION"],                     \* urlopen / json raised
      [kind |-> "REQUEST_DENIED"],                \* a status other than OK
      [kind |-> "ZERO_RESULTS"],
      [kind |-> "NO_LOCATION"],                   \* OK, but no geometry.location
      [kind |-> "OK", lat |-> 14, lng |-> 26] }

\* _geocode_google: (lat, lng) rounded, or (None, None)
_geocode_google(resp) ==
    IF resp.kind = "OK"
    THEN <<Some(Round7(resp.lat)), Some(Round7(resp.lng))>>
    ELSE <<None, None>>

\* Mutant of CacheAfterCall: the result is never stored
CacheAfterCallForgets(c, key, coords) == c

\* Mutant of CacheAfterCall: a failure is stored as a null entry
CacheAfterCallKeepsFailure(c, key, coords) ==
    IF coords[1] # None /\ coords[2] # None
    THEN [x \in (DOMAIN c) \cup {key} |-> IF x = key THEN <<coords[1][1], coords[2][1]>> ELSE c[x]]
    ELSE [x \in (DOMAIN c) \cup {key} |-> IF x = key THEN <<>> ELSE c[x]]

\* geocode_location after the cache miss, with an API key: the cache after the call
CacheAfterCall(c, key, coords) ==
    IF coords[1] # None /\ coords[2] # None
    THEN Put(c, key, <<coords[1][1], coords[2][1]>>)
    ELSE c

\* geocode_location on a cache hit: the cached pair as (lat, lon)
CachedCoords(c, key) == <<Some(c[key][1]), Some(c[key][2])>>

\* Mutant of SetCoords: a failed lookup is written as the point (0, 0)
SetCoordsZeroOnFailure(o, k, coords) ==
    [o EXCEPT ![k].latitude = IF coords[1] = None THEN Some(0) ELSE coords[1],
              ![k].longitude = IF coords[2] = None THEN Some(0) ELSE coords[2]]

\* out.at[idx, LATITUDE] = lat; out.at[idx, LONGITUDE] = lon
SetCoords(o, k, coords) ==
    [o EXCEPT ![k].latitude = coords[1], ![k].longitude = coords[2]]

-----------------------------------------------------------------------------
(* Inputs: the raw rows a CSV may hold *)
WellTimed(t) == <<"time", TRUE, t>>
BadTime == <<"time", FALSE, 0>>          \* e.g. "13/40/2026 99:99"
Lot5 == <<"str", Text(FALSE, <<"Lot 5">>)>>
Lot5Padded == <<"str", Text(TRUE, <<"Lot 5">>)>>
Lot9Town == <<"str", Text(FALSE, <<"Lot 9", "Town">>)>>
BlankCell == <<"str", Text(TRUE, <<>>)>>
Hall == <<"str", Text(FALSE, <<"Hall">>)>>

RawRow(n, occ, rep, loc, bld, lat, lon) ==
    [ Number |-> n, Occurred |-> occ, Reported |-> rep, Location |-> loc,
      Building |-> bld, latitude |-> lat, longitude |-> lon ]

RawRows ==
    { RawRow("A1", WellTimed(1), WellTimed(1), Lot5, NaNCell, <<"num", 70>>, <<"num", 80>>),
      RawRow("A2", WellTimed(2), NaNCell, Lot5Padded, NaNCell, <<"num", 70>>, NaNCell),
      RawRow("A1", WellTimed(3), BadTime, Lot9Town, Hall, <<"str", Text(FALSE, <<"n/a">>)>>, <<"num", 80>>),
      RawRow("A4", BadTime, WellTimed(5), Lot9Town, NaNCell, NaNCell, NaNCell),
      RawRow("A5", WellTimed(6), WellTimed(6), NaNCell, Hall, NaNCell, NaNCell),
      RawRow("A6", WellTimed(7), WellTimed(7), BlankCell, NaNCell, NaNCell, NaNCell) }

SeqsUpTo(S, n) == UNION { [1..k -> S] : k \in 0..n }

Tables == SeqsUpTo(RawRows, MaxRows)

\* City of the school code in the federal school code CSV, if it has the code
Cities == {None, Some("URBANA")}

\* A pair an earlier run stored (the service answered differently then)
StalePair == <<20, 40>>

\* A key no row of the model resolves to: "123 Main St, Illinois, USA"
OtherKey == <<"123 Main St", "Illinois", "USA">>

\* The keys the rows of a CSV resolve to
KeysOf(i, rows, cityOpt) ==
    LET o == BuildOut(i, rows, cityOpt) IN
    { Query(o[k].location, Region(i)) : k \in {j \in DOMAIN o : ~IsBlank(o[j].location)} }

\* The cache files a run may find: none, an unreadable one, or one written
\* earlier (entries of a legacy file may be null)
InitialFiles(i, rows, cityOpt) ==
    { [state |-> "absent", data |-> EmptyDict],
      [state |-> "corrupt", data |-> EmptyDict],
      [state |-> "ok", data |-> EmptyDict],
      [state |-> "ok", data |-> Put(EmptyDict, OtherKey, StalePair)] }
    \cup { [state |-> "ok", data |-> Put(Put(EmptyDict, OtherKey, StalePair), k, v)] :
             k \in KeysOf(i, rows, cityOpt), v \in {None, StalePair} }

\* The columns a raw CSV of the model may have (MichState: Location is its
\* Address column)
AllColumns == {"Number", "Occurred", "Reported", "Location", "Building",
               "latitude", "longitude"}

\* The column sets a CSV may arrive with: complete, or after a change of the
\* remote layout
ColumnSets ==
    { AllColumns,
      AllColumns \ {"Occurred"},
      AllColumns \ {"Reported"},
      AllColumns \ {"Location"},
      AllColumns \ {"Location", "Building"},
      AllColumns \ {"latitude"} }

\* required = (...) of process_<inst>_csv
Required(i) ==
    CASE i = "uiuc"      -> {"Number", "Reported", "Occurred", "Location"}
      [] i = "michstate" -> {"Number", "Occurred"}
      [] OTHER           -> {"Number", "Occurred", "Location"}

\* Mutant of HasRequired: only the identifier column is tested
HasRequiredNumberOnly(i, cols) == "Number" \in cols

\* for col in required: if col not in df.columns: raise ValueError
HasRequired(i, cols) == Required(i) \subseteq cols

\* A raw row as the normalizer reads it when the CSV has the columns cols: an
\* optional column that is absent reads as missing on every row
ReadRow(cols, row) ==
    [c \in DOMAIN row |-> IF c \in cols THEN row[c] ELSE NaNCell]

ReadCsv(cols, rows) == [k \in DOMAIN rows |-> ReadRow(cols, rows[k])]

\* n_dropped = (~valid_mask).sum()
DropCount(i, rows) == Cardinality({k \in DOMAIN rows : ~ValidMask(i, rows[k])})

-----------------------------------------------------------------------------
(* The normalizer runs *)
NormInit ==
    /\ inst \in Institutions
    /\ csv \in Tables
    /\ columns \in IF Len(csv) <= MaxRowsDrift THEN ColumnSets ELSE {AllColumns}
    /\ n_dropped = 0
    /\ ioLog = <<>>
    /\ city \in Cities
    /\ cacheFile \in InitialFiles(inst, ReadCsv(columns, csv), city)
    /\ pc = "idle"
    /\ runsLeft = MaxRuns
    /\ geocode = FALSE
    /\ useFile = FALSE
    /\ apiKey = FALSE
    /\ out = <<>>
    /\ idx = 1
    /\ cache = EmptyDict
    /\ rowLog = <<>>
    /\ extCalls = <<>>
    /\ succeeded = {}
    /\ failed = {}
    /\ failedNow = {}

\* process_<inst>_csv from its start to the head of the geocode loop
StartRun(g, f, a) ==
    /\ pc = "idle"
    /\ runsLeft > 0
    /\ geocode' = g
    /\ useFile' = f
    /\ apiKey' = a
    /\ idx' = 1
    /\ rowLog' = <<>>
    /\ extCalls' = <<>>
    /\ failed' = failed \cup failedNow
    /\ failedNow' = {}
    /\ IF HasRequired(inst, columns)
       THEN /\ pc' = "run"
            /\ n_dropped' = DropCount(inst, ReadCsv(columns, csv))
            /\ out' = BuildOut(inst, ReadCsv(columns, csv), city)
            /\ cache' = IF g /\ f THEN _load_geocode_cache(cacheFile) ELSE EmptyDict
            /\ ioLog' = IF g /\ f THEN <<"load">> ELSE <<>>
       ELSE /\ pc' = "failed"
            /\ n_dropped' = 0
            /\ out' = <<>>
            /\ cache' = EmptyDict
            /\ ioLog' = <<>>
    /\ UNCHANGED <<inst, csv, city, cacheFile, runsLeft, succeeded, columns>>
    /\ UNCHANGED <<mergeVars, blotVars, cleanVars, artVars, raceVars, headVars>>

InLoop == pc = "run" /\ geocode /\ idx <= Len(out)

\* Mutant of HasBothCoords: the loop never passes over a record with coordinates
HasBothCoordsNever(i, rec) == FALSE

\* if pd.notna(latitude) and pd.notna(longitude): continue
HasBothCoords(i, rec) ==
    ReadsCoords(i) /\ rec.latitude # None /\ rec.longitude # None

\* if not str(loc).strip(): continue   (in the loops that have the test)
LoopSkipsBlank(i, rec) == SkipsBlank(i) /\ IsBlank(rec.location)

\* The row reaches geocode_location
CallsResolver(i, rec) == ~HasBothCoords(i, rec) /\ ~LoopSkipsBlank(i, rec)

Advance(tag) ==
    /\ idx' = idx + 1
    /\ rowLog' = Append(rowLog, tag)
    /\ UNCHANGED <<inst, csv, city, cacheFile, pc, runsLeft, geocode, useFile, apiKey,
                   failed, columns, n_dropped>>
    /\ UNCHANGED <<mergeVars, blotVars, cleanVars, artVars, raceVars, headVars>>

\* A row the loop passes over: embedded coordinates, or a blank location
SkipRow ==
    /\ InLoop
    /\ ~CallsResolver(inst, out[idx])
    /\ Advance(IF HasBothCoords(inst, out[idx]) THEN "embedded" ELSE "skipped")
    /\ UNCHANGED <<out, cache, extCalls, succeeded, failedNow, ioLog>>

\* geocode_location returns (None, None) for a blank location
ResolveBlank ==
    /\ InLoop
    /\ CallsResolver(inst, out[idx])
    /\ IsBlank(out[idx].location)
    /\ out' = SetCoords(out, idx, <<None, None>>)
    /\ Advance("blank")
    /\ ioLog' = Append(ioLog, "resolve")
    /\ UNCHANGED <<cache, extCalls, succeeded, failedNow>>

\* geocode_location returns the cached pair
CacheHit ==
    /\ InLoop
    /\ CallsResolver(inst, out[idx])
    /\ ~IsBlank(out[idx].location)
    /\ LET key == Query(out[idx].location, Region(inst)) IN
         /\ IsHit(cache, key)
         /\ out' = SetCoords(out, idx, CachedCoords(cache, key))
    /\ Advance("hit")
    /\ ioLog' = Append(ioLog, "resolve")
    /\ UNCHANGED <<cache, extCalls, succeeded, failedNow>>

\* geocode_location finds no API key
NoApiKey ==
    /\ InLoop
    /\ CallsResolver(inst, out[idx])
    /\ ~IsBlank(out[idx].location)
    /\ ~IsHit(cache, Query(out[idx].location, Region(inst)))
    /\ ~apiKey
    /\ out' = SetCoords(out, idx, <<None, None>>)
    /\ Advance("nokey")
    /\ ioLog' = Append(ioLog, "resolve")
    /\ UNCHANGED <<cache, extCalls, succeeded, failedNow>>

\* geocode_location calls the service, which answers resp
ExternalCall(resp) ==
    /\ InLoop
    /\ CallsResolver(inst, out[idx])
    /\ ~IsBlank(out[idx].location)
    /\ apiKey
    /\ LET key    == Query(out[idx].location, Region(inst))
           coords == _geocode_google(resp)
           ok     == coords[1] # None /\ coords[2] # None
       IN /\ ~IsHit(cache, key)
          /\ cache' = CacheAfterCall(cache, key, coords)
          /\ out' = SetCoords(out, idx, coords)
          /\ extCalls' = Append(extCalls, key)
          /\ succeeded' = IF ok /\ useFile THEN succeeded \cup {key} ELSE succeeded
          /\ failedNow' = IF ok THEN failedNow ELSE failedNow \cup {key}
          /\ ioLog' = Append(ioLog, "resolve")
          /\ Advance(IF ok THEN "ok" ELSE "fail")

\* Mutant of FinishRun: the cache is saved whether or not the file is in use
FinishRunSavesAnyway ==
    /\ pc = "run"
    /\ ~InLoop
    /\ cacheFile' = IF geocode /\ DOMAIN cache # {}
                    THEN _save_geocode_cache(cache) ELSE cacheFile
    /\ ioLog' = IF geocode /\ DOMAIN cache # {}
                 THEN Append(ioLog, "save") ELSE ioLog
    /\ pc' = "idle"
    /\ runsLeft' = runsLeft - 1
    /\ UNCHANGED <<inst, csv, city, geocode, useFile, apiKey, out, idx, cache, rowLog,
                   extCalls, succeeded, failed, failedNow, columns, n_dropped>>
    /\ UNCHANGED <<mergeVars, blotVars, cleanVars, artVars, raceVars, headVars>>

\* The end of process_<inst>_csv: save the cache, return out
FinishRun ==
    /\ pc = "run"
    /\ ~InLoop
    /\ cacheFile' = IF geocode /\ useFile /\ DOMAIN cache # {}
                    THEN _save_geocode_cache(cache) ELSE cacheFile
    /\ ioLog' = IF geocode /\ useFile /\ DOMAIN cache # {}
                 THEN Append(ioLog, "save") ELSE ioLog
    /\ pc' = "idle"
    /\ runsLeft' = runsLeft - 1
    /\ UNCHANGED <<inst, csv, city, geocode, useFile, apiKey, out, idx, cache, rowLog,
                   extCalls, succeeded, failed, failedNow, columns, n_dropped>>
    /\ UNCHANGED <<mergeVars, blotVars, cleanVars, artVars, raceVars, headVars>>

NormNext ==
    \/ \E g, f, a \in BOOLEAN : StartRun(g, f, a)
    \/ SkipRow
    \/ ResolveBlank
    \/ CacheHit
    \/ NoApiKey
    \/ \E resp \in ApiResponses : ExternalCall(resp)
    \/ FinishRun

\* No normalizer runs (the specifications of the collectors and of the parser)
NormIdle ==
    /\ inst = "psu"
    /\ csv = <<>>
    /\ city = None
    /\ cacheFile = [state |-> "absent", data |-> EmptyDict]
    /\ pc = "off"
    /\ runsLeft = 0
    /\ geocode = FALSE
    /\ useFile = FALSE
    /\ apiKey = FALSE
    /\ out = <<>>
    /\ idx = 1
    /\ cache = EmptyDict
    /\ rowLog = <<>>
    /\ extCalls = <<>>
    /\ succeeded = {}
    /\ failed = {}
    /\ failedNow = {}
    /\ columns = AllColumns
    /\ n_dropped = 0
    /\ ioLog = <<>>

-----------------------------------------------------------------------------
(* The collectors: get_psu_data.py, get_northwestern_data.py,              *)
(* get_data/get_umich_data.py, get_purdue_data.py, get_nebraska_data.py    *)

MaxPages == 3

\* max_pages of get_psu_data.main, and the page length under which it stops
max_pages == 500
short_page == 10

\* len(BLOTTER_PAGES) of get_northwestern_data
BLOTTER_PAGES == 3

Collectors == {"psu", "northwestern", "umich", "purdue", "nebraska"}

\* What a page shows of one incident: its identifier and its content
Item(n, v) == [id |-> n, ver |-> v]
Items(ids, v) == [k \in 1..Len(ids) |-> Item(ids[k], v)]
Range(a, b) == [k \in 1..(b - a + 1) |-> a + k - 1]

PageA == Items(Range(1, 10), 1)
PageB == Items(Range(11, 20), 1)
\* a full page that repeats two identifiers of PageA, with the same content
PageC == Items(<<1, 2>> \o Range(21, 28), 1)
\* the same page after the two incidents were updated
PageC2 == Items(<<1, 2>> \o Range(21, 28), 2)
\* a short page that overlaps PageA
PageLast == Items(<<10, 31>>, 1)

\* A response of the host: a transport or HTTP error, or a page
Err == [ok |-> FALSE, items |-> <<>>]
Ok(items) == [ok |-> TRUE, items |-> items]

Responses == {Err, Ok(<<>>), Ok(PageA), Ok(PageB), Ok(PageC), Ok(PageC2), Ok(PageLast)}

\* The sites a collector may face
Sites(s) ==
    CASE s = "northwestern" -> [1..BLOTTER_PAGES -> Responses]
      [] s = "nebraska"     -> [1..1 -> Responses]
      [] OTHER              -> UNION { [1..k -> Responses] : k \in 1..MaxPages }

\* The dict the collector's page parser builds for one incident
\* (UMich: the JSON object of the API)
ParsedItem(s, it) ==
    IF s = "umich"
    THEN [id |-> ToString(it.id), date |-> WellTimed(it.ver), address |-> Lot5]
    ELSE RawRow(ToString(it.id), WellTimed(it.ver), WellTimed(it.ver), Lot5,
                NaNCell, NaNCell, NaNCell)

\* transform_record of get_umich_data
transform_record(record) ==
    RawRow(record.id, record.date, NaNCell, record.address, NaNCell, NaNCell, NaNCell)

\* fetch_page / fetch_date / extract_tables_from_page / parse_archive_html on a
\* response that is not an error: the list of records
fetch_page(s, resp) == [k \in DOMAIN resp.items |-> ParsedItem(s, resp.items[k])]

\* Mutant of MergeNew: every record is appended
MergeKeepsAll(recs, seen, acc) ==
    [all |-> acc \o recs, seen |-> seen \cup {recs[k].Number : k \in DOMAIN recs}]

\* Mutant of MergeNew: only the identifiers of the page just merged are remembered
MergeForgetsSeen(recs, seen, acc) ==
    [all  |-> acc \o SelectSeq(recs, LAMBDA r : r.Number \notin seen),
     seen |-> {recs[k].Number : k \in DOMAIN recs}]

\* for rec in records: if rec["Number"] not in seen_numbers: add it, append rec
RECURSIVE MergeNew(_, _, _)
MergeNew(recs, seen, acc) ==
    IF recs = <<>> THEN [all |-> acc, seen |-> seen]
    ELSE LET r == Head(recs) IN
         IF r.Number \notin seen
         THEN MergeNew(Tail(recs), seen \cup {r.Number}, Append(acc, r))
         ELSE MergeNew(Tail(recs), seen, acc)

\* The records of one fetched page as main() hands them to its merge loop
ToMerge(s, resp) ==
    LET recs == fetch_page(s, resp) IN
    CASE s = "umich"        -> [k \in DOMAIN recs |-> transform_record(recs[k])]
      [] s = "northwestern" -> SelectSeq(recs, LAMBDA r : r.Number # "")
      [] OTHER              -> recs

\* What the PSU host answers for ?page=p (page 0 is the first)
PsuResponse(p) ==
    IF p + 1 <= Len(site) THEN site[p + 1]
    ELSE IF tail = "repeat" THEN site[Len(site)] ELSE Ok(<<>>)

\* Mutant of get_archive_links: a link met again is listed again
ArchiveLinksRepeated(hrefs, links) == links \o SelectSeq(hrefs, LAMBDA h : h # 0)

\* get_archive_links: the archive links of the index page, each once, in order
\* (a link is the position of its page in site; 0 is a link that does not match)
RECURSIVE get_archive_links(_, _)
get_archive_links(hrefs, links) ==
    IF hrefs = <<>> THEN links
    ELSE LET h == Head(hrefs) IN
         IF h # 0 /\ h \notin {links[k] : k \in DOMAIN links}
         THEN get_archive_links(Tail(hrefs), Append(links, h))
         ELSE get_archive_links(Tail(hrefs), links)

\* The links an index page may show for a site of n archive pages
Hrefs(n) ==
    { Range(1, n), <<0>> \o Range(1, n) \o <<1>>, [k \in 1..n |-> n + 1 - k] }

IndexPages == UNION { Hrefs(n) : n \in 1..MaxPages }

MergeInit ==
    /\ src \in Collectors
    /\ site \in Sites(src)
    /\ tail \in IF src = "psu" /\ Len(site) = 1 THEN {"empty", "repeat"} ELSE {"empty"}
    /\ queue = IF src \in {"psu", "purdue"} THEN <<>> ELSE Range(1, Len(site))
    /\ page = 0
    /\ all_records = <<>>
    /\ seen_numbers = {}
    /\ fetched = <<>>
    /\ requests = 0
    /\ gap = "first"
    /\ mpc = IF src = "purdue" THEN "index" ELSE "loop"
    /\ posts = <<>>
    /\ first = None

\* No collector runs (the other specifications)
MergeIdle ==
    /\ src = "psu"
    /\ site = <<>>
    /\ tail = "empty"
    /\ queue = <<>>
    /\ page = 0
    /\ all_records = <<>>
    /\ seen_numbers = {}
    /\ fetched = <<>>
    /\ requests = 0
    /\ gap = "first"
    /\ mpc = "off"
    /\ posts = <<>>
    /\ first = None

\* Mutant of ShortPage: no page counts as short
ShortPageNever(recs) == FALSE

\* if len(records) < 10: break
ShortPage(recs) == Len(recs) < short_page

\* get_psu_data.main: one turn of the while loop
PsuFetchPage ==
    /\ src = "psu"
    /\ mpc = "loop"
    /\ page < max_pages
    /\ requests' = requests + 1
    /\ LET resp == PsuResponse(page)
           recs == ToMerge(src, resp)
           m    == MergeNew(recs, seen_numbers, all_records)
       IN IF ~resp.ok
          THEN /\ mpc' = "write"
               /\ gap' = "none"
               /\ UNCHANGED <<page, all_records, seen_numbers, fetched>>
          ELSE IF recs = <<>>
          THEN /\ mpc' = "write"
               /\ gap' = "none"
               /\ fetched' = Append(fetched, page)
               /\ UNCHANGED <<page, all_records, seen_numbers>>
          ELSE /\ all_records' = m.all
               /\ seen_numbers' = m.seen
               /\ fetched' = Append(fetched, page)
               /\ IF ShortPage(recs)
                  THEN mpc' = "write" /\ gap' = "none" /\ page' = page
                  ELSE mpc' = "loop" /\ gap' = "slept" /\ page' = page + 1
    /\ UNCHANGED <<src, site, tail, queue>>
    /\ UNCHANGED <<normVars, blotVars, cleanVars, artVars, raceVars, headVars, posts, first>>

\* A collector that walks a list of pages has pages left
InQueue == mpc = "loop" /\ page < Len(queue)

\* get_northwestern_data.main: one page of BLOTTER_PAGES
NwFetchPage ==
    /\ src = "northwestern"
    /\ InQueue
    /\ requests' = requests + 1
    /\ gap' = "none"
    /\ page' = page + 1
    /\ LET resp == site[queue[page + 1]]
           m    == MergeNew(ToMerge(src, resp), seen_numbers, all_records)
       IN IF resp.ok
          THEN /\ all_records' = m.all
               /\ seen_numbers' = m.seen
               /\ fetched' = Append(fetched, queue[page + 1])
          ELSE UNCHANGED <<all_records, seen_numbers, fetched>>
    /\ UNCHANGED <<src, site, tail, queue, mpc>>
    /\ UNCHANGED <<normVars, blotVars, cleanVars, artVars, raceVars, headVars, posts, first>>

\* get_umich_data.main: one date (fetch_date gives [] when the request fails)
UmichFetchDate ==
    /\ src = "umich"
    /\ InQueue
    /\ requests' = requests + 1
    /\ gap' = "slept"
    /\ page' = page + 1
    /\ LET resp  == site[queue[page + 1]]
           daily == IF resp.ok THEN ToMerge(src, resp) ELSE <<>>
           m     == MergeNew(daily, seen_numbers, all_records)
       IN /\ all_records' = m.all
          /\ seen_numbers' = m.seen
          /\ fetched' = IF resp.ok THEN Append(fetched, queue[page + 1]) ELSE fetched
    /\ UNCHANGED <<src, site, tail, queue, mpc>>
    /\ UNCHANGED <<normVars, blotVars, cleanVars, artVars, raceVars, headVars, posts, first>>

\* get_purdue_data.main: the index page (a failed request ends the program)
PurdueFetchIndex(ok, hrefs) ==
    /\ src = "purdue"
    /\ mpc = "index"
    /\ hrefs \in Hrefs(Len(site))
    /\ requests' = requests + 1
    /\ gap' = "none"
    /\ IF ok
       THEN queue' = get_archive_links(hrefs, <<>>) /\ mpc' = "loop"
       ELSE queue' = queue /\ mpc' = "crashed"
    /\ UNCHANGED <<src, site, tail, page, all_records, seen_numbers, fetched>>
    /\ UNCHANGED <<normVars, blotVars, cleanVars, artVars, raceVars, headVars, posts, first>>

\* get_purdue_data.main: one archive page; its rows are appended as they are
PurdueFetchArchive ==
    /\ src = "purdue"
    /\ InQueue
    /\ requests' = requests + 1
    /\ gap' = "slept"
    /\ page' = page + 1
    /\ LET resp == site[queue[page + 1]] IN
         IF resp.ok
         THEN /\ all_records' = all_records \o ToMerge(src, resp)
              /\ fetched' = Append(fetched, queue[page + 1])
         ELSE UNCHANGED <<all_records, fetched>>
    /\ UNCHANGED <<src, site, tail, queue, seen_numbers, mpc>>
    /\ UNCHANGED <<normVars, blotVars, cleanVars, artVars, raceVars, headVars, posts, first>>

\* The first response of the archive form: the HTTP status was 2xx or not,
\* and the value of the _UserID input in its text (None: no such input)
FirstResponse(ok, field) == [ok |-> ok, field |-> field]
FirstResponses ==
    { FirstResponse(FALSE, None), FirstResponse(TRUE, None),
      FirstResponse(TRUE, Some("")), FirstResponse(TRUE, Some("u1")),
      FirstResponse(TRUE, Some("u2")), FirstResponse(FALSE, Some("u1")) }

\* Mutant of ExtractToken: a response without the input gives an empty token
TokenOrBlank(r1) == IF r1.field = None THEN Some("") ELSE r1.field

\* re.search(r"name='_UserID' value='([^']+)'", r1.text): the value, when the
\* input is there and its value is not empty
ExtractToken(r1) ==
    IF r1.field # None /\ r1.field[1] # "" THEN r1.field ELSE None

\* One session.post: the form data sent and whether its status was 2xx
Post(data, ok) == [data |-> data, ok |-> ok]

\* get_nebraska_data.main: fetch_archive (two POSTs) and parse_archive_html;
\* r1 is what the first POST gave
NebraskaFetch(r1) ==
    /\ src = "nebraska"
    /\ InQueue
    /\ gap' = "none"
    /\ IF ~r1.ok \/ ExtractToken(r1) = None
       THEN /\ requests' = requests + 1
            /\ posts' = <<Post(None, r1.ok)>>
            /\ mpc' = "crashed"
            /\ UNCHANGED <<page, all_records, fetched>>
       ELSE /\ requests' = requests + 2
            /\ posts' = <<Post(None, r1.ok), Post(ExtractToken(r1), site[1].ok)>>
            /\ IF site[1].ok
               THEN /\ all_records' = ToMerge(src, site[1])
                    /\ fetched' = Append(fetched, 1)
                    /\ page' = page + 1
                    /\ mpc' = "write"
               ELSE /\ mpc' = "crashed"
                    /\ UNCHANGED <<page, all_records, fetched>>
    /\ first' = Some(r1)
    /\ UNCHANGED <<src, site, tail, queue, seen_numbers>>
    /\ UNCHANGED <<normVars, blotVars, cleanVars, artVars, raceVars, headVars>>

\* The loop of main() is over
LoopOver ==
    \/ mpc = "write"
    \/ mpc = "loop" /\ src = "psu" /\ page >= max_pages
    \/ mpc = "loop" /\ src # "psu" /\ page >= Len(queue)

\* main() writes all_records to the CSV and returns
WriteCsv ==
    /\ LoopOver
    /\ mpc' = "done"
    /\ UNCHANGED <<src, site, tail, queue, page, all_records, seen_numbers, fetched,
                   requests, gap>>
    /\ UNCHANGED <<normVars, blotVars, cleanVars, artVars, raceVars, headVars, posts, first>>

MergeNext ==
    \/ PsuFetchPage
    \/ NwFetchPage
    \/ UmichFetchDate
    \/ \E ok \in BOOLEAN, hrefs \in IndexPages : PurdueFetchIndex(ok, hrefs)
    \/ PurdueFetchArchive
    \/ \E r1 \in FirstResponses : NebraskaFetch(r1)
    \/ WriteCsv

-----------------------------------------------------------------------------
(* The label/value table parser: get_northwestern_data.parse_blotter_table *)

MaxTableRows == 4

\* A row (tr) of the table: how many cells it has, and the stripped text of
\* the first two (the label and the value)
Row(n, l, r) == [cells |-> n, left |-> l, right |-> r]

EndTime == "February 01, 2026 at 11:45:00 PM"
StartTime == "February 01, 2026 at 10:00:00 PM"

TableRows ==
    { Row(2, "Case Number", "A1"),
      Row(2, "Case Number", "A2"),
      Row(2, "Case Number", ""),
      Row(1, "Case Number", ""),
      Row(2, "Location:", "Lot 5"),
      Row(2, "Location:", "Lot 9"),
      Row(2, "Criminal Offense:", "Theft"),
      Row(2, "Weather:", "Rain"),
      Row(2, "Date & Time: Occurred", StartTime),
      Row(2, "", EndTime) }

BlotterTables == UNION { [1..k -> TableRows] : k \in 0..MaxTableRows }

\* "at " in right, and right[0].isalpha(), for the texts of the model
HasAt(s) == s \in {EndTime, StartTime}
StartsAlpha(s) == s \in {EndTime, StartTime, "A1", "A2", "Lot 5", "Lot 9", "Theft", "Rain"}

\* The dict a "Case Number" row opens
NewRecord(number) ==
    [ Number |-> number, Reported_Date_Time |-> "", Occurred_From_Date_Time |-> "",
      Location |-> "", Description |-> "", Disposition |-> "", Narrative |-> "",
      School_Code |-> "001740", latitude |-> "", longitude |-> "" ]

\* if left == "Case Number" and right
OpensRecord(row) == row.left = "Case Number" /\ row.right # ""

\* The if / elif chain on the label of a row, applied to the open record
ApplyRow(cur, left, right) ==
    IF left = "Date & Time: Reported" THEN [cur EXCEPT !.Reported_Date_Time = right]
    ELSE IF left = "Date & Time: Occurred"
    THEN [cur EXCEPT !.Occurred_From_Date_Time = right]
    ELSE IF left = "" /\ right # "" /\ HasAt(right) /\ StartsAlpha(right)
    THEN [cur EXCEPT !.Narrative = IF @ # "" THEN @ \o " End: " \o right
                                   ELSE "End occurred: " \o right]
    ELSE IF left = "Location:" THEN [cur EXCEPT !.Location = right]
    ELSE IF left = "Common Name:" /\ right # ""
    THEN [cur EXCEPT !.Location = IF @ # "" THEN @ \o " (" \o right \o ")" ELSE right]
    ELSE IF left = "Incident Type:" THEN [cur EXCEPT !.Description = right]
    ELSE IF left = "Criminal Offense:" /\ right # ""
    THEN [cur EXCEPT !.Narrative = IF @ # "" THEN @ \o " " \o right ELSE right]
    ELSE IF left = "Disposition:" THEN [cur EXCEPT !.Disposition = right]
    ELSE cur

\* The table is taken for the blotter: two rows or more, and "Case Number" in
\* a first row of two cells or more
LooksLikeBlotter(t) ==
    /\ Len(t) >= 2
    /\ t[1].cells >= 2
    /\ "Case Number" \in {t[1].left, t[1].right}

BlotInit ==
    /\ table \in BlotterTables
    /\ pos = 1
    /\ current = None
    /\ records = <<>>
    /\ bpc = "find"

\* No table is parsed (the other specifications)
BlotIdle ==
    /\ table = <<>>
    /\ pos = 1
    /\ current = None
    /\ records = <<>>
    /\ bpc = "off"

\* The tests on the table before the loop over its rows (no blotter: return [])
FindTable ==
    /\ bpc = "find"
    /\ bpc' = IF LooksLikeBlotter(table) THEN "rows" ELSE "done"
    /\ UNCHANGED <<table, pos, current, records>>
    /\ UNCHANGED <<normVars, mergeVars, cleanVars, artVars, raceVars, headVars>>

AtRow == bpc = "rows" /\ pos <= Len(table)

\* if len(cells) < 2: continue
SkipShortRow ==
    /\ AtRow
    /\ table[pos].cells < 2
    /\ pos' = pos + 1
    /\ UNCHANGED <<table, current, records, bpc>>
    /\ UNCHANGED <<normVars, mergeVars, cleanVars, artVars, raceVars, headVars>>

\* A "Case Number" row with a value: close the open record, open a new one
OpenRecord ==
    /\ AtRow
    /\ table[pos].cells >= 2
    /\ OpensRecord(table[pos])
    /\ records' = IF current # None THEN Append(records, current[1]) ELSE records
    /\ current' = Some(NewRecord(table[pos].right))
    /\ pos' = pos + 1
    /\ UNCHANGED <<table, bpc>>
    /\ UNCHANGED <<normVars, mergeVars, cleanVars, artVars, raceVars, headVars>>

\* if current is None: continue
IgnoreRow ==
    /\ AtRow
    /\ table[pos].cells >= 2
    /\ ~OpensRecord(table[pos])
    /\ current = None
    /\ pos' = pos + 1
    /\ UNCHANGED <<table, current, records, bpc>>
    /\ UNCHANGED <<normVars, mergeVars, cleanVars, artVars, raceVars, headVars>>

\* Any other row while a record is open
FillField ==
    /\ AtRow
    /\ table[pos].cells >= 2
    /\ ~OpensRecord(table[pos])
    /\ current # None
    /\ current' = Some(ApplyRow(current[1], table[pos].left, table[pos].right))
    /\ pos' = pos + 1
    /\ UNCHANGED <<table, records, bpc>>
    /\ UNCHANGED <<normVars, mergeVars, cleanVars, artVars, raceVars, headVars>>

\* After the last row: append the open record, return records
Flush ==
    /\ bpc = "rows"
    /\ pos > Len(table)
    /\ records' = IF current # None THEN Append(records, current[1]) ELSE records
    /\ bpc' = "done"
    /\ UNCHANGED <<table, pos, current>>
    /\ UNCHANGED <<normVars, mergeVars, cleanVars, artVars, raceVars, headVars>>

BlotNext ==
    \/ FindTable
    \/ SkipShortRow
    \/ OpenRecord
    \/ IgnoreRow
    \/ FillField
    \/ Flush

-----------------------------------------------------------------------------
(* The optional text fields: description, disposition, narrative *)

MaxLen == 4

\* The characters a cell is made of here; "a", "n" are lower case letters,
\* "A", "N" their upper case (no "&": html.unescape has nothing to decode)
Chars == {" ", "\"", "'", ",", "a", "n", "A", "N", "<", ">"}

Cells == SeqsUpTo(Chars, MaxLen)

\* pd.read_csv with its default na_values: a cell whose text is one of them
\* is read as NaN (those that can be written with Chars)
NaValues == { <<>>, <<"N", "A">>, <<"<", "N", "A", ">">>, <<"n", "a", "n">>,
              <<"N", "a", "N">> }

\* One cell as read_csv returns it: None (NaN) or Some(text)
ReadCell(t) == IF t \in NaValues THEN None ELSE Some(t)

NanChars == <<"n", "a", "n">>

\* Series.astype(str) of one cell
AsStrChars(c) == IF c = None THEN NanChars ELSE c[1]

\* Series.replace(v, None) of one value
ReplaceByNone(x, v) == IF x # None /\ x[1] = v THEN None ELSE x

RECURSIVE LStrip(_, _)
LStrip(s, set) ==
    IF s # <<>> /\ Head(s) \in set THEN LStrip(Tail(s), set) ELSE s

RECURSIVE RStrip(_, _)
RStrip(s, set) ==
    IF s # <<>> /\ s[Len(s)] \in set THEN RStrip(SubSeq(s, 1, Len(s) - 1), set) ELSE s

\* str.strip()
StrStrip(s) == RStrip(LStrip(s, {" "}), {" "})

\* str.strip('"\'')
StripQuotes(s) == RStrip(LStrip(s, {"\"", "'"}), {"\"", "'"})

IsLower(c) == c \in {"a", "n"}
IsUpper(c) == c \in {"A", "N"}
IsCased(c) == IsLower(c) \/ IsUpper(c)
Upper(c) == CASE c = "a" -> "A" [] c = "n" -> "N" [] OTHER -> c
Lower(c) == CASE c = "A" -> "a" [] c = "N" -> "n" [] OTHER -> c

\* str.title(): a letter after a letter is lowered, any other letter is raised
StrTitle(s) ==
    [k \in DOMAIN s |->
        IF k > 1 /\ IsCased(s[k - 1]) THEN Lower(s[k]) ELSE Upper(s[k])]

\* str.replace(", ", " - "): the occurrences from left to right, not overlapping
RECURSIVE ReplaceCommaSpace(_)
ReplaceCommaSpace(s) ==
    IF s = <<>> THEN <<>>
    ELSE IF Len(s) >= 2 /\ s[1] = "," /\ s[2] = " "
         THEN <<" ", "-", " ">> \o ReplaceCommaSpace(SubSeq(s, 3, Len(s)))
         ELSE <<Head(s)>> \o ReplaceCommaSpace(Tail(s))

\* x in (None, "", "nan") or pd.isna(x)
IsMissing(x) == x = None \/ x[1] \in {<<>>, NanChars}

\* preprocess/shared.py _normalize_disposition, one cell
_normalize_disposition(c) ==
    LET x == ReplaceByNone(Some(AsStrChars(c)), NanChars) IN
    IF IsMissing(x) THEN None
    ELSE Some(ReplaceCommaSpace(StrTitle(StripQuotes(StrStrip(x[1])))))

\* preprocess.py _normalize_disposition (process_crime_log_csv), one cell
LegacyNormalizeDisposition(c) ==
    LET x == ReplaceByNone(Some(AsStrChars(c)), NanChars) IN
    IF IsMissing(x) THEN None
    ELSE Some(StrTitle(StripQuotes(StrStrip(x[1]))))

\* df[col].astype(str).replace("nan", None), one cell
DescriptionOf(c) == ReplaceByNone(Some(AsStrChars(c)), NanChars)

\* df[col].astype(str).replace("nan", None).replace("", None), one cell
NarrativeOf(c) == ReplaceByNone(ReplaceByNone(Some(AsStrChars(c)), NanChars), <<>>)

\* preprocess_umich.py _normalize_narrative, one cell
_normalize_narrative(c) ==
    LET x == ReplaceByNone(Some(AsStrChars(c)), NanChars) IN
    IF IsMissing(x) THEN None
    ELSE Some(StripQuotes(StrStrip(x[1])))

Modules == {"shared", "legacy", "umich"}
Fields == {"description", "disposition", "narrative"}

\* process_crime_log_csv has no narrative column
CleanInit ==
    /\ cell \in Cells
    /\ fieldName \in Fields
    /\ module \in Modules
    /\ ~(module = "legacy" /\ fieldName = "narrative")
    /\ emitted = None
    /\ cpc = "read"

\* No optional field is read (the other specifications)
CleanIdle ==
    /\ cell = <<>>
    /\ fieldName = "description"
    /\ module = "shared"
    /\ emitted = None
    /\ cpc = "off"

Emit(v) ==
    /\ cpc = "read"
    /\ emitted' = v
    /\ cpc' = "done"
    /\ UNCHANGED <<cell, fieldName, module>>
    /\ UNCHANGED <<normVars, mergeVars, blotVars, headVars, artVars, raceVars>>

\* DESCRIPTION: df[...].astype(str).replace("nan", None)
Description ==
    /\ fieldName = "description"
    /\ Emit(DescriptionOf(ReadCell(cell)))

\* DISPOSITION: _normalize_disposition(df[...])
Disposition ==
    /\ fieldName = "disposition"
    /\ Emit(IF module = "legacy"
            THEN LegacyNormalizeDisposition(ReadCell(cell))
            ELSE _normalize_disposition(ReadCell(cell)))

\* NARRATIVE: _normalize_narrative(df[...]) in UMich, the two replaces elsewhere
Narrative ==
    /\ fieldName = "narrative"
    /\ Emit(IF module = "umich"
            THEN _normalize_narrative(ReadCell(cell))
            ELSE NarrativeOf(ReadCell(cell)))

CleanNext == Description \/ Disposition \/ Narrative

-----------------------------------------------------------------------------
(* The header mapping of the table collectors: get_purdue_data
   extract_tables_from_page and get_nebraska_data parse_archive_html *)

MaxHeaderWords == 2
MaxColumns == 2

\* The words a header text is made of (get_text(strip=True) of a th / td)
Words == {"Nature", "Case", "Number", "#", "Incident", "Code", "Reported",
          "Start", "End", "Occurred", "OCCURRED", "Location", "Disposition"}

\* str.lower() of one word
LowerWord(w) ==
    CASE w = "Nature" -> "nature"           [] w = "Case" -> "case"
      [] w = "Number" -> "number"           [] w = "Incident" -> "incident"
      [] w = "Code" -> "code"               [] w = "Reported" -> "reported"
      [] w = "Start" -> "start"             [] w = "End" -> "end"
      [] w = "Occurred" -> "occurred"       [] w = "OCCURRED" -> "occurred"
      [] w = "Location" -> "location"       [] w = "Disposition" -> "disposition"
      [] OTHER -> w

\* h.lower()
LowerHeader(h) == [k \in DOMAIN h |-> LowerWord(h[k])]

\* phrase in h_lower: the words of phrase occur in h_lower side by side
Contains(h, phrase) ==
    \E k \in 0..(Len(h) - Len(phrase)) :
        \A j \in DOMAIN phrase : h[k + j] = phrase[j]

HeaderTexts == SeqsUpTo(Words, MaxHeaderWords)

\* The if / elif chain of extract_tables_from_page: the field header h goes to
PurdueField(h) ==
    LET l == LowerHeader(h) IN
    IF Contains(l, <<"nature">>) THEN Some("Description")
    ELSE IF Contains(l, <<"case", "number">>) THEN Some("Number")
    ELSE IF Contains(l, <<"occurred">>) THEN Some("Occurred_From_Date_Time")
    ELSE IF Contains(l, <<"reported">>) THEN Some("Reported_Date_Time")
    ELSE IF Contains(l, <<"location">>) THEN Some("Location")
    ELSE IF Contains(l, <<"disposition">>) THEN Some("Disposition")
    ELSE None

\* The if / elif chain of parse_archive_html
NebraskaField(h) ==
    LET l == LowerHeader(h) IN
    IF Contains(l, <<"case">>) /\ Contains(l, <<"#">>) THEN Some("Number")
    ELSE IF Contains(l, <<"incident", "code">>) THEN Some("Description")
    ELSE IF Contains(l, <<"reported">>) THEN Some("Reported_Date_Time")
    ELSE IF Contains(l, <<"disposition">>) THEN Some("Disposition")
    ELSE IF Contains(l, <<"start", "occurred">>) THEN Some("Occurred_From_Date_Time")
    ELSE IF Contains(l, <<"end", "occurred">>) THEN Some("End_Occurred")
    ELSE IF Contains(l, <<"location">>) THEN Some("Location")
    ELSE None

FieldOf(s, h) == IF s = "purdue" THEN PurdueField(h) ELSE NebraskaField(h)

\* The header rows: Purdue's first tr with th cells; Nebraska's first row that
\* has the cells "Case #" and "Incident Code", here with one more column
InsertAt(sq, k, x) == SubSeq(sq, 1, k) \o <<x>> \o SubSeq(sq, k + 1, Len(sq))

HeaderRows(s) ==
    IF s = "purdue"
    THEN UNION { [1..n -> HeaderTexts \ {<<>>}] : n \in 1..MaxColumns }
    ELSE { InsertAt(<<<<"Case", "#">>, <<"Incident", "Code">>>>, k, h) :
              k \in 0..2, h \in HeaderTexts }
         \cup { InsertAt(<<<<"Case", "#">>, <<"Start", "Occurred">>>>, k, <<"End", "Occurred">>) :
                  k \in 0..2 }

\* cell_texts of a data row: cell k holds the text "v<k>" or is empty
CellText(k, filled) == IF filled THEN "v" \o ToString(k) ELSE ""

CellRows(s, n) ==
    IF s = "purdue"
    THEN { [k \in 1..n |-> CellText(k, TRUE)] }
    ELSE { [k \in 1..n |-> CellText(k, f[k])] : f \in [1..n -> BOOLEAN] }

\* The row dict with every text field empty
BlankRow(s) ==
    [ Number |-> "", Reported_Date_Time |-> "", Occurred_From_Date_Time |-> "",
      Location |-> "", Description |-> "", Disposition |-> "", Narrative |-> "",
      School_Code |-> IF s = "purdue" THEN "001825" ELSE "002565" ]

HeadInit ==
    /\ hsrc \in {"purdue", "nebraska"}
    /\ headers \in HeaderRows(hsrc)
    /\ cells \in CellRows(hsrc, Len(headers))
    /\ hi = 0
    /\ header_map = EmptyDict
    /\ hrow = None
    /\ hpc = "map"

\* No header row is mapped (the other specifications)
HeadIdle ==
    /\ hsrc = "purdue"
    /\ headers = <<>>
    /\ cells = <<>>
    /\ hi = 0
    /\ header_map = EmptyDict
    /\ hrow = None
    /\ hpc = "off"

\* for i, h in enumerate(headers): one header
MapHeader ==
    /\ hpc = "map"
    /\ hi < Len(headers)
    /\ LET f == FieldOf(hsrc, headers[hi + 1]) IN
         header_map' = IF f = None THEN header_map ELSE Put(header_map, f[1], hi)
    /\ hi' = hi + 1
    /\ UNCHANGED <<hsrc, headers, hpc, cells, hrow>>
    /\ UNCHANGED <<normVars, mergeVars, blotVars, cleanVars, artVars, raceVars>>

\* The header loop is over
EndHeaders ==
    /\ hpc = "map"
    /\ hi = Len(headers)
    /\ hpc' = "row"
    /\ UNCHANGED <<hsrc, headers, hi, header_map, cells, hrow>>
    /\ UNCHANGED <<normVars, mergeVars, blotVars, cleanVars, artVars, raceVars>>

\* The value of field f in the row built from cell_texts c under map m
\* (parse_date_time of a stripped text gives the text back)
RowValue(s, m, c, f) ==
    IF f = "Narrative" /\ s = "nebraska"
    THEN IF "End_Occurred" \in DOMAIN m /\ m["End_Occurred"] < Len(c)
            /\ c[m["End_Occurred"] + 1] # ""
         THEN c[m["End_Occurred"] + 1]
         ELSE BlankRow(s)[f]
    ELSE IF f \in DOMAIN m /\ m[f] < Len(c) THEN c[m[f] + 1] ELSE BlankRow(s)[f]

\* for tr in data_trs: one data row (skipped when it has fewer than two cells)
BuildRow ==
    /\ hpc = "row"
    /\ hrow' = IF Len(cells) < 2 THEN None
               ELSE Some([f \in DOMAIN BlankRow(hsrc) |->
                             RowValue(hsrc, header_map, cells, f)])
    /\ hpc' = "done"
    /\ UNCHANGED <<hsrc, headers, hi, header_map, cells>>
    /\ UNCHANGED <<normVars, mergeVars, blotVars, cleanVars, artVars, raceVars>>

HeadNext == MapHeader \/ EndHeaders \/ BuildRow

-----------------------------------------------------------------------------
(* One article of the PSU daily log: get_psu_data.parse_article *)

MaxWords == 3

\* The words of an "occurred" text: two times and the word "to"
TimeWords == {"T1", "T2", "to"}

OccurredTexts == SeqsUpTo(TimeWords, MaxWords)

\* The text of a sequence of words
RECURSIVE Join(_)
Join(ws) ==
    IF ws = <<>> THEN ""
    ELSE IF Len(ws) = 1 THEN ws[1]
    ELSE ws[1] \o " " \o Join(Tail(ws))

\* " to " in text: the positions of a word "to" with a word on either side
ToPositions(ws) == {k \in 2..(Len(ws) - 1) : ws[k] = "to"}

\* Mutant of parse_occurred: the text is never split
ParseOccurredWhole(ws) == <<Join(ws), "">>

\* parse_occurred: (start, end) of "X to Y", else (text, "")
parse_occurred(ws) ==
    IF ToPositions(ws) = {} THEN <<Join(ws), "">>
    ELSE LET k == CHOOSE x \in ToPositions(ws) : \A y \in ToPositions(ws) : x <= y
         IN <<Join(SubSeq(ws, 1, k - 1)), Join(SubSeq(ws, k + 1, Len(ws)))>>

\* The narrative parse_article builds from the end time and the offenses
ArticleNarrative(end, off) ==
    LET n1 == IF end # "" THEN "End occurred: " \o end ELSE ""
    IN IF off = "" THEN n1
       ELSE IF n1 = "" THEN off ELSE n1 \o " " \o off

\* parse_article: the dict of one article
parse_article(ws, off) ==
    LET se == parse_occurred(ws) IN
    [ Number |-> "PSU1", Reported_Date_Time |-> "", Occurred_From_Date_Time |-> se[1],
      Location |-> "", Description |-> "", Disposition |-> "",
      Narrative |-> ArticleNarrative(se[2], off), School_Code |-> "003329" ]

ArtInit ==
    /\ occurred_raw \in OccurredTexts
    /\ offenses \in {"", "Theft"}
    /\ arec = None
    /\ apc = "parse"

\* No article is parsed (the other specifications)
ArtIdle ==
    /\ occurred_raw = <<>>
    /\ offenses = ""
    /\ arec = None
    /\ apc = "off"

ParseArticle ==
    /\ apc = "parse"
    /\ arec' = Some(parse_article(occurred_raw, offenses))
    /\ apc' = "done"
    /\ UNCHANGED <<occurred_raw, offenses>>
    /\ UNCHANGED <<normVars, mergeVars, blotVars, cleanVars, raceVars, headVars>>

-----------------------------------------------------------------------------
(* Two normalizer runs at once on one geocode cache file: each loads the   *)
(* file, resolves its rows, and saves (process_<inst>_csv, shared.py)      *)

MaxWork == 2

Runs == {1, 2}

\* The cache keys the rows of the two runs resolve to
WorkKeys == { <<"Lot 5", "Michigan", "USA">>, <<"Lot 9", "Michigan", "USA">> }

\* The rows of a run: at least one, each without coordinates of its own
WorkLists == SeqsUpTo(WorkKeys, MaxWork) \ {<<>>}

\* What the service answers in these runs: a result or none
RaceResponses == { r \in ApiResponses : r.kind \in {"OK", "ZERO_RESULTS"} }

\* open(GEOCODE_CACHE_PATH, "w"): the file is empty until json.dump has
\* written it, and json.load of an empty file raises JSONDecodeError
Truncated == [state |-> "corrupt", data |-> EmptyDict]

RaceInit ==
    /\ shared \in { [state |-> "absent", data |-> EmptyDict],
                    [state |-> "ok", data |-> Put(EmptyDict, OtherKey, StalePair)] }
    /\ before = shared.data
    /\ work \in [Runs -> WorkLists]
    /\ wi = [p \in Runs |-> 0]
    /\ wcache = [p \in Runs |-> EmptyDict]
    /\ resolved = [p \in Runs |-> {}]
    /\ wpc = [p \in Runs |-> "load"]

\* No concurrent runs (the other specifications)
RaceIdle ==
    /\ shared = [state |-> "absent", data |-> EmptyDict]
    /\ before = EmptyDict
    /\ work = [p \in Runs |-> <<>>]
    /\ wi = [p \in Runs |-> 0]
    /\ wcache = [p \in Runs |-> EmptyDict]
    /\ resolved = [p \in Runs |-> {}]
    /\ wpc = [p \in Runs |-> "off"]

RaceFrame == UNCHANGED <<normVars, mergeVars, blotVars, cleanVars, artVars, headVars>>

\* cache = _load_geocode_cache()
RaceLoad(p) ==
    /\ wpc[p] = "load"
    /\ wcache' = [wcache EXCEPT ![p] = _load_geocode_cache(shared)]
    /\ wpc' = [wpc EXCEPT ![p] = "rows"]
    /\ UNCHANGED <<shared, before, work, wi, resolved>>
    /\ RaceFrame

\* geocode_location on a row whose key is in the run's cache
RaceHit(p) ==
    /\ wpc[p] = "rows"
    /\ wi[p] < Len(work[p])
    /\ IsHit(wcache[p], work[p][wi[p] + 1])
    /\ wi' = [wi EXCEPT ![p] = @ + 1]
    /\ UNCHANGED <<shared, before, work, wcache, resolved, wpc>>
    /\ RaceFrame

\* geocode_location on a row whose key is not: the service answers resp
RaceCall(p, resp) ==
    /\ wpc[p] = "rows"
    /\ wi[p] < Len(work[p])
    /\ LET key    == work[p][wi[p] + 1]
           coords == _geocode_google(resp)
       IN /\ ~IsHit(wcache[p], key)
          /\ wcache' = [wcache EXCEPT ![p] = CacheAfterCall(@, key, coords)]
          /\ resolved' = IF coords[1] # None /\ coords[2] # None
                         THEN [resolved EXCEPT ![p] = @ \cup {key}] ELSE resolved
    /\ wi' = [wi EXCEPT ![p] = @ + 1]
    /\ UNCHANGED <<shared, before, work, wpc>>
    /\ RaceFrame

\* if use_geocode_cache_file and cache: _save_geocode_cache opens the file
RaceOpen(p) ==
    /\ wpc[p] = "rows"
    /\ wi[p] = Len(work[p])
    /\ IF DOMAIN wcache[p] # {}
       THEN shared' = Truncated /\ wpc' = [wpc EXCEPT ![p] = "dump"]
       ELSE shared' = shared /\ wpc' = [wpc EXCEPT ![p] = "done"]
    /\ UNCHANGED <<before, work, wi, wcache, resolved>>
    /\ RaceFrame

\* json.dump(out, f): the file holds the run's non-null entries
RaceDump(p) ==
    /\ wpc[p] = "dump"
    /\ shared' = _save_geocode_cache(wcache[p])
    /\ wpc' = [wpc EXCEPT ![p] = "done"]
    /\ UNCHANGED <<before, work, wi, wcache, resolved>>
    /\ RaceFrame

RaceNext ==
    \E p \in Runs :
        \/ RaceLoad(p)
        \/ RaceHit(p)
        \/ \E resp \in RaceResponses : RaceCall(p, resp)
        \/ RaceOpen(p)
        \/ RaceDump(p)

-----------------------------------------------------------------------------
(* The specifications *)

\* The normalizers and the geocode cache
Init == NormInit /\ MergeIdle /\ BlotIdle /\ CleanIdle /\ HeadIdle /\ ArtIdle /\ RaceIdle
Next == NormNext
Spec == Init /\ [][Next]_vars

\* The collectors
InitMerge == MergeInit /\ NormIdle /\ BlotIdle /\ CleanIdle /\ HeadIdle /\ ArtIdle /\ RaceIdle
SpecMerge == InitMerge /\ [][MergeNext]_vars

\* The collectors, run to their end: a started program keeps taking its steps
SpecMergeLive == SpecMerge /\ WF_vars(MergeNext)

\* The label/value table parser
InitBlotter == BlotInit /\ NormIdle /\ MergeIdle /\ CleanIdle /\ HeadIdle /\ ArtIdle /\ RaceIdle
SpecBlotter == InitBlotter /\ [][BlotNext]_vars

\* The optional text fields of one row
InitClean == CleanInit /\ NormIdle /\ MergeIdle /\ BlotIdle /\ HeadIdle /\ ArtIdle /\ RaceIdle
SpecClean == InitClean /\ [][CleanNext]_vars

\* The header mapping of the table collectors
InitHead == HeadInit /\ NormIdle /\ MergeIdle /\ BlotIdle /\ CleanIdle /\ ArtIdle /\ RaceIdle
SpecHead == InitHead /\ [][HeadNext]_vars

\* The three parsers that meet an end time: PSU's article, Northwestern's
\* blotter table, Nebraska's archive table
InitEnd ==
    \/ ArtInit /\ NormIdle /\ MergeIdle /\ BlotIdle /\ CleanIdle /\ HeadIdle /\ RaceIdle
    \/ BlotInit /\ NormIdle /\ MergeIdle /\ CleanIdle /\ HeadIdle /\ ArtIdle /\ RaceIdle
    \/ HeadInit /\ hsrc = "nebraska" /\ NormIdle /\ MergeIdle /\ BlotIdle /\ CleanIdle
          /\ ArtIdle /\ RaceIdle
NextEnd == ParseArticle \/ BlotNext \/ HeadNext
SpecEnd == InitEnd /\ [][NextEnd]_vars

\* Two concurrent normalizer runs
InitRace == RaceInit /\ NormIdle /\ MergeIdle /\ BlotIdle /\ CleanIdle /\ HeadIdle /\ ArtIdle
SpecRace == InitRace /\ [][RaceNext]_vars

-----------------------------------------------------------------------------
(* Properties of the normalizers and of the geocode cache *)

\* A run has returned: out is the DataFrame it returned
Returned == pc = "idle" /\ runsLeft < MaxRuns

\* The raw row behind row k of out
RawOf(k) == KeepValid(inst, ReadCsv(columns, csv))[k]

\* Exactly one of the raw coordinates is numeric
OneNumeric(row) == (ToNumeric(row.latitude) = None) # (ToNumeric(row.longitude) = None)

BothNumeric(row) == ToNumeric(row.latitude) # None /\ ToNumeric(row.longitude) # None

\* C1: every record of the output of every normalizer has a non-null
\* occurred_datetime.
C1_OccurredPresent ==
    \A k \in DOMAIN out : out[k].occurred_datetime # None

\* C1 witness: a run returned records although a raw row with an unparsable
\* occurred time was in the input (it was dropped).
C1_Witness ==
    /\ Returned
    /\ Len(out) >= 1
    /\ \E k \in DOMAIN csv : ParseDatetime(csv[k].Occurred) = None

\* C2: latitude and longitude of every record are both present or both absent,
\* at every point of the run and whatever the resolver did.
C2_CoordsBothOrNeither ==
    \A k \in DOMAIN out : (out[k].latitude = None) <=> (out[k].longitude = None)

\* C2 witness: a returned table of two records whose raw rows had one numeric
\* coordinate each; one was geocoded successfully, the other failed.
C2_Witness ==
    /\ Returned
    /\ ReadsCoords(inst)
    /\ Len(out) = 2 /\ Len(csv) = 2
    /\ OneNumeric(csv[1]) /\ OneNumeric(csv[2])
    /\ rowLog = <<"ok", "fail">>

\* C3: after a run that loads and saves the cache file, every entry of the file
\* is a coordinate pair: no key is stored with an absent value.
C3_OnlySuccessesPersisted ==
    (Returned /\ geocode /\ useFile) =>
        \A k \in DOMAIN cacheFile.data :
            /\ cacheFile.data[k] # None
            /\ Len(cacheFile.data[k]) = 2

\* C3 witness: a run saved the file after a lookup failed, another succeeded
\* and the loaded cache held a null entry.
C3_Witness ==
    /\ Returned /\ geocode /\ useFile
    /\ cacheFile.state = "ok"
    /\ failedNow # {}
    /\ \E k \in DOMAIN rowLog : rowLog[k] = "ok"
    /\ \E k \in DOMAIN cache : cache[k] = None
    /\ \A k \in failedNow : k \notin DOMAIN cacheFile.data

\* The resolver is at a record with a non-blank location
Resolving ==
    /\ pc = "run" /\ geocode /\ idx <= Len(out)
    /\ CallsResolver(inst, out[idx])
    /\ ~IsBlank(out[idx].location)

KeyNow == Query(out[idx].location, Region(inst))

\* C4: when the cache holds a pair under the record's key, resolving it makes
\* no external call and returns that pair; and a key is resolved by an external
\* call at most once over the runs that share the cache file.
C4_CacheHitNoCall ==
    [][ Resolving =>
          /\ (KeyNow \in DOMAIN cache /\ cache[KeyNow] # None) =>
                /\ extCalls' = extCalls
                /\ cache' = cache
                /\ out'[idx].latitude = Some(cache[KeyNow][1])
                /\ out'[idx].longitude = Some(cache[KeyNow][2])
          /\ (useFile /\ rowLog' = Append(rowLog, "ok")) => KeyNow \notin succeeded
      ]_vars

\* C4 witness: in a later run both records are served from the cache, with the
\* pair an external call of an earlier run stored, and no external call is made.
C4_Witness ==
    /\ Returned
    /\ rowLog = <<"hit", "hit">>
    /\ extCalls = <<>>
    /\ succeeded # {}
    /\ out[1].latitude = Some(10) /\ out[1].longitude = Some(30)

\* C5: a failed lookup adds nothing to the cache, and whenever the cache has no
\* pair for the key (no entry, or a null entry) and an API key is set, resolving
\* the record issues an external call.
C5_FailuresRetried ==
    [][ /\ (rowLog' = Append(rowLog, "fail")) => cache' = cache
        /\ (Resolving /\ apiKey /\ (KeyNow \notin DOMAIN cache \/ cache[KeyNow] = None)) =>
              extCalls' = Append(extCalls, KeyNow)
      ]_vars

\* C5 witness: a run calls the service for a key whose lookup failed in an
\* earlier run, and for a key the loaded cache maps to null.
C5_Witness ==
    /\ \E j \in DOMAIN extCalls : extCalls[j] \in failed
    /\ \E j \in DOMAIN extCalls :
          extCalls[j] \in DOMAIN cache /\ cache[extCalls[j]] = None

\* The resolver took the record: it reached the cache lookup
PassedToResolver(k) ==
    k \in DOMAIN rowLog /\ rowLog[k] \in {"hit", "nokey", "ok", "fail"}

\* C6 as stated (for the runs that geocode): in the normalizers that read
\* coordinate columns, a row with both raw coordinates numeric keeps them and is
\* never looked up, and a row with at most one numeric coordinate has both
\* discarded and is passed to the cache / geocoder.
C6_Original ==
    (Returned /\ geocode /\ ReadsCoords(inst)) =>
        \A k \in DOMAIN out :
            /\ BothNumeric(RawOf(k)) =>
                  /\ out[k].latitude = ToNumeric(RawOf(k).latitude)
                  /\ out[k].longitude = ToNumeric(RawOf(k).longitude)
                  /\ ~PassedToResolver(k)
            /\ ~BothNumeric(RawOf(k)) => PassedToResolver(k)

\* C6 amended: ... a row with at most one numeric coordinate has both
\* discarded and, when geocoding is enabled and its location is not blank, is
\* passed to the cache / geocoder.
C6_EmbeddedCoords ==
    (pc = "run" \/ Returned) /\ ReadsCoords(inst) =>
        \A k \in DOMAIN out :
            /\ BothNumeric(RawOf(k)) =>
                  /\ out[k].latitude = ToNumeric(RawOf(k).latitude)
                  /\ out[k].longitude = ToNumeric(RawOf(k).longitude)
                  /\ k \in DOMAIN rowLog => rowLog[k] = "embedded"
            /\ ~BothNumeric(RawOf(k)) =>
                  /\ k \notin DOMAIN rowLog =>
                        out[k].latitude = None /\ out[k].longitude = None
                  /\ (k \in DOMAIN rowLog /\ ~IsBlank(out[k].location)) =>
                        PassedToResolver(k)
                  /\ (Returned /\ geocode /\ ~IsBlank(out[k].location)) =>
                        PassedToResolver(k)

\* C6 witness: a returned table whose first record kept its embedded
\* coordinates and whose second, with a latitude only, was geocoded.
C6_Witness ==
    /\ Returned /\ ReadsCoords(inst)
    /\ Len(out) = 2
    /\ BothNumeric(RawOf(1)) /\ OneNumeric(RawOf(2))
    /\ rowLog = <<"embedded", "ok">>
    /\ out[1].latitude = Some(70) /\ out[2].latitude = Some(10)

-----------------------------------------------------------------------------
(* Properties of the row filter and of the required columns *)

\* The raw rows as the run read them
RowsRead == ReadCsv(columns, csv)

\* A run got past its column test: out is built (and, once Returned, final)
Built == pc = "run" \/ Returned

OccurredParses(row) == ParseDatetime(row.Occurred) # None
ReportParses(row) == ParseDatetime(row.Reported) # None

\* C11 as stated: the output is the input without the rows whose occurred
\* time does not parse: every row whose occurred time parses is there, in
\* input order, with the fields of its own raw row, and emitted rows plus the
\* logged drop count is the number of input rows.
C11_Original ==
    Built =>
        LET kept == SelectSeq(RowsRead, OccurredParses) IN
        /\ Len(out) = Len(kept)
        /\ Len(out) + n_dropped = Len(csv)
        /\ \A k \in DOMAIN out :
              k \in DOMAIN kept =>
                 /\ out[k].case_number = kept[k].Number
                 /\ out[k].occurred_datetime = ParseDatetime(kept[k].Occurred)
                 /\ out[k].report_datetime = ParseDatetime(kept[k].Reported)

\* C11 witness: UIUC returned without a row whose occurred time parses (its
\* report time is "13/40/2026 99:99"), and counted it as dropped.
C11_Witness ==
    /\ Returned
    /\ inst = "uiuc"
    /\ columns = AllColumns
    /\ Len(csv) = 1
    /\ OccurredParses(csv[1])
    /\ csv[1].Reported = BadTime
    /\ out = <<>>
    /\ n_dropped = 1

\* C12 as stated: a row whose occurred time parses and whose report time is
\* absent or does not parse is emitted with report_datetime unset, and a CSV
\* without a report time column does not make the run fail.
C12_Original ==
    /\ Built =>
          \A k \in DOMAIN RowsRead :
              (OccurredParses(RowsRead[k]) /\ ~ReportParses(RowsRead[k])) =>
                  \E j \in DOMAIN out :
                      /\ out[j].case_number = RowsRead[k].Number
                      /\ out[j].occurred_datetime = ParseDatetime(RowsRead[k].Occurred)
                      /\ out[j].report_datetime = None
    /\ pc = "failed" => columns # AllColumns \ {"Reported"}

\* C12 witness: UIUC returned an empty table for a CSV whose only row has a
\* well-formed occurred time and no report time.
C12_Witness ==
    /\ Returned
    /\ inst = "uiuc"
    /\ columns = AllColumns
    /\ Len(csv) = 1
    /\ OccurredParses(csv[1])
    /\ csv[1].Reported = NaNCell
    /\ out = <<>>

\* C13: a run over a CSV that lacks a column the institution requires fails
\* as a whole: it returns no record, makes no geocode call and leaves the
\* cache file as it was; a run over a CSV that has the required columns gets
\* past the test whatever its cells hold.
C13_MissingColumnFails ==
    [][ (pc = "idle" /\ pc' # "idle") =>
           IF Required(inst) \subseteq columns
           THEN pc' = "run"
           ELSE /\ pc' = "failed"
                /\ out' = <<>>
                /\ extCalls' = <<>>
                /\ rowLog' = <<>>
                /\ cacheFile' = cacheFile ]_vars

\* C13 witness: a run asked to geocode with a key and a cache file on disk
\* failed on a one-row CSV without the Occurred column.
C13_Witness ==
    /\ pc = "failed"
    /\ geocode /\ useFile /\ apiKey
    /\ cacheFile.state = "ok"
    /\ Len(csv) = 1
    /\ "Occurred" \notin columns
    /\ out = <<>>

\* The location of record k before the backfill, and the text the backfill
\* makes of a location without a comma when the lookup gives "URBANA"
LocationBefore(k) == LocationOf(inst, RawOf(k))
WithCity(loc) == Text(FALSE, Strip(loc).parts \o <<"Urbana">>)
LacksLocality(loc) == ~IsBlank(loc) /\ ~HasComma(loc)

\* C14: when the lookup has a city for the school, every record whose
\* location is not blank and has no comma carries "<location>, <City>" from the
\* moment the geocode loop starts, and the cache key looked up, stored or sent
\* to the geocoder for that record is built from that backfilled location.
C14_BackfillBeforeLookup ==
    [][ (Built /\ city # None) =>
          /\ \A k \in DOMAIN out :
                LacksLocality(LocationBefore(k)) =>
                    out[k].location = WithCity(LocationBefore(k))
          /\ (Resolving /\ LacksLocality(LocationBefore(idx))) =>
                LET key == WithCity(LocationBefore(idx)).parts
                               \o RegionParts(Region(inst)) IN
                /\ extCalls' # extCalls => extCalls' = Append(extCalls, key)
                /\ DOMAIN cache' \ DOMAIN cache \subseteq {key}
                /\ rowLog' = Append(rowLog, "hit") =>
                      /\ key \in DOMAIN cache
                      /\ out'[idx].latitude = Some(cache[key][1]) ]_vars

\* C14 witness: a run with a city for the school sent the geocoder the query
\* "Lot 5, Urbana, <region>" for a record whose raw location was "Lot 5".
C14_Witness ==
    /\ Built
    /\ city # None
    /\ Len(out) >= 1
    /\ LocationBefore(1) = Text(FALSE, <<"Lot 5">>)
    /\ Len(extCalls) >= 1
    /\ extCalls[1] = <<"Lot 5", "Urbana">> \o RegionParts(Region(inst))

\* C15 as stated: every record of every normalizer's output has a location
\* that is not the empty string.
C15_Original ==
    Built => \A k \in DOMAIN out : out[k].location # EmptyText

\* C15 witness: Michigan State returned a record whose location is "" for a
\* row with a blank Address cell and no Building.
C15_Witness ==
    /\ Returned
    /\ inst = "michstate"
    /\ Len(out) = 1
    /\ RawOf(1).Location = BlankCell
    /\ RawOf(1).Building = NaNCell
    /\ out[1].location = EmptyText

\* The step is a lookup that failed: the geocoder gave no pair, or no API key
FailedLookup ==
    /\ Resolving
    /\ \/ rowLog' = Append(rowLog, "fail")
       \/ rowLog' = Append(rowLog, "nokey")

\* C19: a lookup that fails leaves the record in out with both coordinates
\* absent, writes nothing to the cache or to the cache file, and the loop goes
\* on to the next record; the records of out and their case numbers are those
\* of the rows kept by the filter whatever the geocoder answered, and a run
\* that returns has treated every record.
C19_FailureKeepsRecord ==
    [][ /\ FailedLookup =>
              /\ Len(out') = Len(out)
              /\ out'[idx].latitude = None
              /\ out'[idx].longitude = None
              /\ \A k \in DOMAIN out : k # idx => out'[k] = out[k]
              /\ out'[idx].case_number = out[idx].case_number
              /\ cache' = cache
              /\ cacheFile' = cacheFile
              /\ pc' = "run"
              /\ idx' = idx + 1
        /\ Built =>
              /\ Len(out) = Len(KeepValid(inst, RowsRead))
              /\ \A k \in DOMAIN out : out[k].case_number = RawOf(k).Number
        /\ (Returned /\ geocode) => Len(rowLog) = Len(out) ]_vars

\* C19 witness: the first lookup of a run failed at the geocoder, the second
\* record was resolved afterwards, and both records were returned.
C19_Witness ==
    /\ Returned
    /\ Len(out) = 2
    /\ rowLog = <<"fail", "ok">>
    /\ out[1].latitude = None /\ out[1].longitude = None
    /\ out[2].latitude # None
    /\ Query(out[1].location, Region(inst)) \notin DOMAIN cache

\* How often tag occurs in the I/O log of the run
Count(log, tag) == Cardinality({k \in DOMAIN log : log[k] = tag})

\* The entries of a dict whose value is not null
NonNull(c) == [k \in {x \in DOMAIN c : c[x] # None} |-> c[k]]

\* C20 as stated: a run that geocodes with the cache file loads the file once,
\* before its first resolution, and writes it once, after its last, and the
\* file then holds exactly the non-null entries of the in-memory cache, also
\* when that cache is empty.
C20_Original ==
    (Returned /\ geocode /\ useFile) =>
        /\ Count(ioLog, "load") = 1
        /\ ioLog[1] = "load"
        /\ Count(ioLog, "save") = 1
        /\ ioLog[Len(ioLog)] = "save"
        /\ cacheFile.state = "ok"
        /\ cacheFile.data = NonNull(cache)

\* C20 witness: the file was unreadable, the only lookup failed, and the run
\* returned without writing the file: it is still unreadable.
C20_Witness ==
    /\ Returned /\ geocode /\ useFile
    /\ cache = EmptyDict
    /\ rowLog = <<"fail">>
    /\ ioLog = <<"load", "resolve">>
    /\ cacheFile.state = "corrupt"

-----------------------------------------------------------------------------
(* Properties of the collectors *)

\* The collectors that merge their fetches by identifier
Merging == src \in {"psu", "northwestern", "umich"}

\* main() has written its CSV
Collected == mpc = "done"

\* The response behind an entry of fetched
ResponseOf(p) == IF src = "psu" THEN PsuResponse(p) ELSE site[p]

\* The fetched pages that hold records, as lists of records, in fetch order
FetchedPages ==
    SelectSeq([k \in DOMAIN fetched |-> ToMerge(src, ResponseOf(fetched[k]))],
              LAMBDA recs : recs # <<>>)

RECURSIVE Flatten(_)
Flatten(ss) == IF ss = <<>> THEN <<>> ELSE Head(ss) \o Flatten(Tail(ss))

\* All fetched records, in the order they were seen
FetchedRecords == Flatten(FetchedPages)

Ids(s) == {s[k].Number : k \in DOMAIN s}
SetOf(s) == {s[k] : k \in DOMAIN s}
NoRepeats(s) == \A j, k \in DOMAIN s : j # k => s[j] # s[k]

\* The positions of s that hold the first record of their identifier
FirstSeen(s) == {k \in DOMAIN s : \A j \in 1..(k - 1) : s[j].Number # s[k].Number}

\* The i-th smallest element of a set of numbers
Nth(S, i) == CHOOSE k \in S : Cardinality({j \in S : j < k}) = i - 1

\* s without the records whose identifier an earlier record has
DedupFirst(s) ==
    LET keep == FirstSeen(s) IN [i \in 1..Cardinality(keep) |-> s[Nth(keep, i)]]

\* C7: the output of a merging collector (PSU, Northwestern, UMich) holds
\* exactly one record per distinct identifier among all fetched records, that
\* record is the first one seen with the identifier, and the records are in
\* the order of first appearance; so its size is the number of distinct
\* identifiers fetched.
C7_FirstSeenWins ==
    (Collected /\ Merging) =>
        /\ all_records = DedupFirst(FetchedRecords)
        /\ Len(all_records) = Cardinality(Ids(FetchedRecords))

\* C7 witness: PSU served three full pages, the third repeating two
\* identifiers of the first with changed content; 28 records were written and
\* the first is the first page's version.
C7_Witness ==
    /\ Collected
    /\ src = "psu"
    /\ site = <<Ok(PageA), Ok(PageB), Ok(PageC2)>>
    /\ Len(FetchedPages) = 3
    /\ Len(all_records) = 28
    /\ all_records[1] = ParsedItem("psu", Item(1, 1))

\* C8 as stated: for every source, no two records of the collector's output
\* share an identifier, and no two records of the normalizer's output for
\* that CSV share a case_number.
C8_Original ==
    Collected =>
        /\ NoRepeats([k \in DOMAIN all_records |-> all_records[k].Number])
        /\ LET o == BuildOut(src, all_records, None) IN
             NoRepeats([k \in DOMAIN o |-> o[k].case_number])

\* C8 witness: Purdue's index links two archive pages that both show incident
\* 10; the CSV and the normalizer's output hold it twice.
C8_Witness ==
    /\ Collected
    /\ src = "purdue"
    /\ site = <<Ok(PageA), Ok(PageLast)>>
    /\ fetched = <<1, 2>>
    /\ Cardinality({k \in DOMAIN all_records : all_records[k].Number = "10"}) = 2
    /\ LET o == BuildOut(src, all_records, None) IN
         Cardinality({k \in DOMAIN o : o[k].case_number = "10"}) = 2

\* The merge loop of main() run over a list of pages
RECURSIVE MergePages(_, _, _)
MergePages(pages, seen, acc) ==
    IF pages = <<>> THEN acc
    ELSE LET m == MergeNew(Head(pages), seen, acc) IN
         MergePages(Tail(pages), m.seen, m.all)

Perms(n) == {f \in [1..n -> 1..n] : \A i, j \in 1..n : i # j => f[i] # f[j]}

\* The output of the merge when the fetched pages arrive in the order f
MergedIn(pages, f) == MergePages([k \in DOMAIN f |-> pages[f[k]]], {}, <<>>)

\* Every identifier shows the same content wherever it was fetched
SameContent(s) == \A j, k \in DOMAIN s : s[j].Number = s[k].Number => s[j] = s[k]

SameContentEverywhere == SameContent(FetchedRecords)

\* The runs the order of whose pages is compared
FewPages == Collected /\ Merging /\ Len(FetchedPages) <= MaxPages

\* C9 as stated: the merge over the same pages gives the same set of records
\* for every order in which the pages are fetched.
C9_Original ==
    FewPages =>
        LET pages == FetchedPages IN
        \A f \in Perms(Len(pages)) : SetOf(MergedIn(pages, f)) = SetOf(all_records)

\* C9, amended: the output is a function of the fetched pages (so it is the
\* same on every run over the same pages); for every order of the pages the
\* merge keeps the same identifiers, once each; and it keeps the same records
\* when every identifier shows the same content on every page it appears on.
C9_SameIdsAnyOrder ==
    FewPages =>
        LET pages == FetchedPages
            same  == SameContentEverywhere
        IN /\ all_records = MergePages(pages, {}, <<>>)
           /\ \A f \in Perms(Len(pages)) :
                 LET merged == MergedIn(pages, f) IN
                 /\ Ids(merged) = Ids(all_records)
                 /\ Len(merged) = Len(all_records)
                 /\ same => SetOf(merged) = SetOf(all_records)

\* C9 witness: two fetched pages share an identifier whose content is the
\* same on both, and the merge is done.
C9_Witness ==
    /\ FewPages
    /\ SameContentEverywhere
    /\ LET pages == FetchedPages IN
         /\ Len(pages) >= 2
         /\ Ids(pages[1]) \cap Ids(pages[2]) # {}

\* C16: fetch_archive sends its first POST with an empty form; it sends a
\* second POST only when the first came back with a 2xx status and a _UserID
\* value, and that POST carries exactly that value; when the first response
\* has no token the collector stops with an error after one POST and no
\* record is collected or written.
C16_TokenHandshake ==
    (src = "nebraska" /\ first # None) =>
        LET r1 == first[1]
            hasToken == r1.field # None /\ r1.field[1] # ""
        IN /\ Len(posts) \in {1, 2}
           /\ posts[1].data = None
           /\ Len(posts) = 2 <=> (r1.ok /\ hasToken)
           /\ Len(posts) = 2 => posts[2].data = r1.field
           /\ requests = Len(posts)
           /\ ~hasToken =>
                 /\ mpc = "crashed"
                 /\ all_records = <<>>
                 /\ fetched = <<>>

\* C16 witness: the first response carried the token "u2", the second POST
\* sent it and the archive was collected.
C16_Witness ==
    /\ src = "nebraska"
    /\ first = Some(FirstResponse(TRUE, Some("u2")))
    /\ Len(posts) = 2
    /\ posts[2].data = Some("u2")
    /\ mpc = "done"
    /\ Len(all_records) > 0

\* A page on which the PSU loop stops: the fetch failed, or it gave no
\* record, or fewer than ten
StoppingPage(p) ==
    LET resp == PsuResponse(p) IN ~resp.ok \/ Len(resp.items) < 10

\* The identifiers of the incidents page p of the PSU site lists
PageIds(p) ==
    {ToString(PsuResponse(p).items[k].id) : k \in DOMAIN PsuResponse(p).items}

\* The PSU loop so far: the pages read are 0, 1, 2, ... in order, none of them
\* but the last is a stopping page, at most 500 requests were sent, at most one
\* of them failed, and once the loop is over it stopped on a stopping page or
\* at the bound, with the incidents of a short last page in the output.
PsuLoopInOrder ==
    /\ \A k \in DOMAIN fetched : fetched[k] = k - 1
    /\ \A k \in DOMAIN fetched : k < Len(fetched) => ~StoppingPage(fetched[k])
    /\ requests <= 500
    /\ requests \in {Len(fetched), Len(fetched) + 1}
    /\ mpc = "loop" => requests = page /\ Len(fetched) = page
    /\ mpc \in {"write", "done"} =>
          \/ page = 500 /\ requests = 500
          \/ /\ StoppingPage(page)
             /\ requests = page + 1
             /\ PsuResponse(page).ok =>
                   /\ fetched # <<>> /\ fetched[Len(fetched)] = page
                   /\ PageIds(page) \subseteq
                         {all_records[k].Number : k \in DOMAIN all_records}

\* C21: the paginated loop fetches pages 0, 1, 2, ... in order, stops at the
\* first page that is empty, short or fails, and at the latest after 500
\* fetches; the records of a short last page are in the output, no page after
\* the stopping page is fetched, and the program always reaches its end.
C21_PaginationTerminates ==
    /\ [](src = "psu" /\ mpc # "off" => PsuLoopInOrder)
    /\ (src = "psu" /\ mpc = "loop") ~> (mpc = "done")

\* C21 witness: the loop read a full page and then a short one, stopped there
\* and wrote the incidents of both.
C21_Witness ==
    /\ src = "psu"
    /\ mpc = "done"
    /\ site = <<Ok(PageA), Ok(PageLast), Ok(PageB)>>
    /\ fetched = <<0, 1>>
    /\ requests = 2
    /\ \E k \in DOMAIN all_records : all_records[k].Number = "31"

\* The collectors that send one request per page, date or archive
MultiFetch == {"psu", "northwestern", "umich", "purdue"}

\* The pages of the run in request order (positions in site), and how many of
\* them were requested so far (Purdue: the index page is one more request)
PageList == IF src = "psu" THEN Range(1, Len(site)) ELSE queue
PagesRequested == IF src = "purdue" THEN requests - 1 ELSE requests

\* C22 as stated: in a collector that fetches several pages, a failed request
\* costs only its own page: the records of the pages read before it are kept
\* and the page after it is requested all the same.
C22_Original ==
    (Collected /\ src \in MultiFetch) =>
        \A k \in DOMAIN PageList :
            (k <= PagesRequested /\ ~site[PageList[k]].ok) =>
                /\ \A j \in 1..(k - 1) :
                      site[PageList[j]].ok =>
                          Ids(ToMerge(src, site[PageList[j]])) \subseteq Ids(all_records)
                /\ k < Len(PageList) => k + 1 <= PagesRequested

\* C22 witness: PSU read page 0, the request for page 1 failed, and the
\* program wrote its CSV without asking for page 2.
C22_Witness ==
    /\ Collected
    /\ src = "psu"
    /\ site = <<Ok(PageA), Err, Ok(PageB)>>
    /\ requests = 2
    /\ fetched = <<0>>
    /\ Len(all_records) = 10

\* C23 as stated: in PSU, Purdue, Northwestern and UMich every request after
\* the first of the run is preceded by a sleep since the request before it.
C23_Original ==
    [][ (src \in MultiFetch /\ requests > 0 /\ requests' > requests) =>
            gap = "slept" ]_vars

\* C23 witness: Northwestern sent its three page requests and wrote its CSV,
\* and did not sleep after the last request any more than after the others.
C23_Witness ==
    /\ Collected
    /\ src = "northwestern"
    /\ requests = 3
    /\ gap = "none"

-----------------------------------------------------------------------------
(* Properties of the label/value table parser *)

\* The rows among the first n whose label is the sentinel
SentinelRows(n) == {k \in 1..n : table[k].left = "Case Number"}

Open == IF current = None THEN 0 ELSE 1

\* C10 as stated, for a table the parser takes for the blotter: every row
\* whose label is "Case Number" opens a record and closes the one before, so
\* the records closed or open after n rows are as many as the sentinel rows
\* among them, and the number of records returned is the number of sentinel
\* rows of the table.
C10_Original ==
    LooksLikeBlotter(table) =>
        /\ bpc = "rows" => Len(records) + Open = Cardinality(SentinelRows(pos - 1))
        /\ bpc = "done" => Len(records) = Cardinality(SentinelRows(Len(table)))

\* C10 witness: after A1 with Lot 5 comes a "Case Number" row without a value
\* and then Lot 9; one record is returned, A1 with Lot 9.
C10_Witness ==
    /\ bpc = "done"
    /\ table = <<Row(2, "Case Number", "A1"), Row(2, "Location:", "Lot 5"),
                 Row(2, "Case Number", ""), Row(2, "Location:", "Lot 9")>>
    /\ records = <<[NewRecord("A1") EXCEPT !.Location = "Lot 9"]>>

-----------------------------------------------------------------------------
(* Properties of the optional text fields *)

Cleaned == cpc = "done"

QuoteChars == {"\"", "'"}

\* No ", " is left in r
NoCommaSpace(r) ==
    \A k \in 1..(Len(r) - 1) : ~(r[k] = "," /\ r[k + 1] = " ")

\* r is title-cased: a letter is upper case exactly when no letter precedes it
TitleCased(r) ==
    \A k \in DOMAIN r :
        IsCased(r[k]) => (IsUpper(r[k]) <=> (k = 1 \/ ~IsCased(r[k - 1])))

\* r has no white space and no quote character at either end
Trimmed(r) ==
    r # <<>> => /\ r[1] \notin {" "} \cup QuoteChars
                /\ r[Len(r)] \notin {" "} \cup QuoteChars

\* C17 as stated: the disposition emitted for any raw cell, by the shared and
\* by the legacy normalizer, is absent or a text without leading or trailing
\* white space, without a wrapping quote, title-cased and without ", ".
C17_Original ==
    (Cleaned /\ fieldName = "disposition") =>
        \/ emitted = None
        \/ /\ Trimmed(emitted[1])
           /\ TitleCased(emitted[1])
           /\ NoCommaSpace(emitted[1])

\* C17 witness: the shared normalizer emitted " A" (leading blank) for the
\* cell <" a"> whose text is wrapped in quote characters.
C17_Witness ==
    /\ Cleaned
    /\ fieldName = "disposition"
    /\ module = "shared"
    /\ cell = <<"\"", " ", "a", "\"">>
    /\ emitted = Some(<<" ", "A">>)

\* The sentinel texts: "nan", "", "NA", "<NA>"
Sentinels == { <<"n", "a", "n">>, <<>>, <<"N", "A">>, <<"<", "N", "A", ">">> }

\* C18 as stated: in each optional field a raw value that is a sentinel text
\* is emitted as absent, and a raw value that is a sentinel up to surrounding
\* white space is never emitted as "" or as the title-cased "Na".
C18_Original ==
    Cleaned =>
        /\ cell \in Sentinels => emitted = None
        /\ StrStrip(cell) \in Sentinels =>
              emitted \notin {Some(<<>>), Some(<<"N", "a">>)}

\* C18 witness: the disposition of a cell holding one blank was emitted as "".
C18_Witness ==
    /\ Cleaned
    /\ fieldName = "disposition"
    /\ module = "shared"
    /\ cell = <<" ">>
    /\ emitted = Some(<<>>)

-----------------------------------------------------------------------------
(* Properties of the header mapping *)

Mapped == hpc \in {"row", "done"}

\* The header of column k (1-based) contains "occurred", in any case
NamesOccurred(k) == Contains(LowerHeader(headers[k]), <<"occurred">>)

\* C24 as stated: once the header row is mapped, the last column whose header
\* contains "occurred" is the column of the occurred-time field, whatever
\* else its header contains and wherever it stands, and no column is the
\* column of two fields.
C24_Original ==
    Mapped =>
        /\ \A k \in DOMAIN headers :
              (NamesOccurred(k) /\ \A j \in (k + 1)..Len(headers) : ~NamesOccurred(j)) =>
                  /\ "Occurred_From_Date_Time" \in DOMAIN header_map
                  /\ header_map["Occurred_From_Date_Time"] = k - 1
        /\ \A k \in DOMAIN headers :
              Cardinality({f \in DOMAIN header_map : header_map[f] = k - 1}) <= 1

\* C24 witness: Nebraska's table has the columns "Case #", "Incident Code" and
\* "Occurred"; the third is mapped to no field and the row built has an empty
\* occurred time.
C24_Witness ==
    /\ hpc = "done"
    /\ hsrc = "nebraska"
    /\ headers = <<<<"Case", "#">>, <<"Incident", "Code">>, <<"Occurred">>>>
    /\ cells = <<"v1", "v2", "v3">>
    /\ "Occurred_From_Date_Time" \notin DOMAIN header_map
    /\ hrow # None
    /\ hrow[1].Occurred_From_Date_Time = ""

-----------------------------------------------------------------------------
(* Properties of the end time of an occurrence *)

\* The row at pos is an end-time row met while a record is open
AtEndTimeRow ==
    /\ AtRow /\ current # None
    /\ table[pos].cells >= 2
    /\ table[pos].left = "" /\ table[pos].right = EndTime

\* The row at pos is an offense row met while a record is open
AtOffenseRow ==
    /\ AtRow /\ current # None
    /\ table[pos].cells >= 2
    /\ table[pos].left = "Criminal Offense:" /\ table[pos].right # ""

\* The column of the header row whose header is h (0-based), if any
ColumnsOf(h) == {k \in 0..(Len(headers) - 1) : headers[k + 1] = h}

\* C25: whenever a raw row carries a non-empty end time, the narrative of its
\* record holds that end time as an annotation added to what the narrative
\* holds otherwise (the offense text is kept), and the occurred field holds
\* only the start time: for the "X to Y" text of a PSU article, for the
\* end-time row of the Northwestern table and for Nebraska's "End Occurred"
\* column.
C25_EndTimeFolded ==
    [][ /\ \A x, y \in {"T1", "T2"} :
            (apc = "parse" /\ apc' = "done" /\ occurred_raw = <<x, "to", y>>) =>
               /\ arec'[1].Occurred_From_Date_Time = x
               /\ arec'[1].Narrative =
                     IF offenses = "" THEN "End occurred: " \o y
                     ELSE "End occurred: " \o y \o " " \o offenses
        /\ (AtEndTimeRow /\ pos' = pos + 1) =>
               /\ current'[1].Occurred_From_Date_Time = current[1].Occurred_From_Date_Time
               /\ current'[1].Narrative =
                     IF current[1].Narrative = "" THEN "End occurred: " \o EndTime
                     ELSE current[1].Narrative \o " End: " \o EndTime
        /\ (AtOffenseRow /\ pos' = pos + 1) =>
               /\ current'[1].Occurred_From_Date_Time = current[1].Occurred_From_Date_Time
               /\ current'[1].Narrative =
                     IF current[1].Narrative = "" THEN table[pos].right
                     ELSE current[1].Narrative \o " " \o table[pos].right
        /\ \A e \in ColumnsOf(<<"End", "Occurred">>) :
            ( /\ hsrc = "nebraska" /\ hpc = "row" /\ hpc' = "done"
              /\ cells[e + 1] # "" ) =>
               /\ hrow' # None
               /\ hrow'[1].Narrative = cells[e + 1]
               /\ \A b \in ColumnsOf(<<"Start", "Occurred">>) :
                     hrow'[1].Occurred_From_Date_Time = cells[b + 1]
               /\ ColumnsOf(<<"Start", "Occurred">>) = {} =>
                     hrow'[1].Occurred_From_Date_Time = ""
      ]_vars

\* A Northwestern record with a start time, an offense and then an end time,
\* folded into the narrative after the offense
C25_Witness ==
    /\ bpc = "done"
    /\ table = <<Row(2, "Case Number", "A1"), Row(2, "Date & Time: Occurred", StartTime),
                 Row(2, "Criminal Offense:", "Theft"), Row(2, "", EndTime)>>
    /\ Len(records) = 1
    /\ records[1].Occurred_From_Date_Time = StartTime
    /\ records[1].Narrative = "Theft End: " \o EndTime

-----------------------------------------------------------------------------
(* Properties of concurrent runs *)

BothDone == \A p \in Runs : wpc[p] = "done"

\* The readable entries of the cache file
FileEntries == _load_geocode_cache(shared)

\* C26: after two concurrent runs on the same cache file have finished, the
\* file holds every entry that either run resolved and every entry it held
\* before.
C26_Original ==
    BothDone =>
        /\ \A k \in DOMAIN before : IsHit(FileEntries, k) /\ FileEntries[k] = before[k]
        /\ \A p \in Runs : \A k \in resolved[p] : IsHit(FileEntries, k)

\* Both runs loaded the file before either saved: the file holds what the
\* run that saved last resolved, and the other run's lookup is lost
C26_Witness ==
    /\ BothDone
    /\ resolved[1] = {<<"Lot 5", "Michigan", "USA">>}
    /\ resolved[2] = {<<"Lot 9", "Michigan", "USA">>}
    /\ DOMAIN before = {OtherKey}
    /\ DOMAIN FileEntries = {OtherKey, <<"Lot 9", "Michigan", "USA">>}

-----------------------------------------------------------------------------
(* Properties of the index + archives collector *)

\* The positions of hrefs where an archive link appears for the first time
FirstAt(hrefs) ==
    {k \in DOMAIN hrefs : hrefs[k] # 0 /\ \A j \in 1..(k - 1) : hrefs[j] # hrefs[k]}

\* The archive links of hrefs, each once, in order of first appearance
FirstAppearances(hrefs) ==
    [i \in 1..Cardinality(FirstAt(hrefs)) |->
        hrefs[CHOOSE k \in FirstAt(hrefs) :
                 Cardinality({j \in FirstAt(hrefs) : j <= k}) = i]]

\* The rows of the pages ps, page after page
RECURSIVE RowsOfPages(_)
RowsOfPages(ps) ==
    IF ps = <<>> THEN <<>>
    ELSE ToMerge("purdue", site[Head(ps)]) \o RowsOfPages(Tail(ps))

\* The archive pages of the queue that answer
Answering == SelectSeq(queue, LAMBDA q : site[q].ok)

\* C27: the archive links are the matching links of the index page, each
\* once, in order of first appearance; every archive page is requested once,
\* in that order; a page whose request fails adds no rows and the pages after
\* it are still requested; the output is the rows of the pages that answered,
\* concatenated in link order.
C27_ArchivesInLinkOrder ==
    /\ [][ \A hrefs \in IndexPages :
              PurdueFetchIndex(TRUE, hrefs) => queue' = FirstAppearances(hrefs) ]_vars
    /\ [][ (src = "purdue" /\ mpc = "loop" /\ requests' # requests) =>
              /\ page < Len(queue) /\ page' = page + 1 /\ requests' = requests + 1
              /\ fetched' = IF site[queue[page']].ok
                            THEN Append(fetched, queue[page']) ELSE fetched
              /\ ~site[queue[page']].ok => all_records' = all_records ]_vars
    /\ [](src = "purdue" /\ Collected =>
              /\ page = Len(queue)
              /\ requests = 1 + Len(queue)
              /\ fetched = Answering
              /\ all_records = RowsOfPages(Answering))

\* Three archives linked in reverse order, the second request fails: the
\* first and the third page were read, and their rows written in that order
C27_Witness ==
    /\ src = "purdue" /\ Collected
    /\ queue = <<3, 2, 1>>
    /\ ~site[2].ok /\ site[3].ok /\ site[1].ok
    /\ site[3].items # <<>> /\ site[1].items # <<>>
    /\ fetched = <<3, 1>>
    /\ all_records = ToMerge("purdue", site[3]) \o ToMerge("purdue", site[1])

-----------------------------------------------------------------------------
(* Properties of the cache file over sequential runs *)

\* The keys of d that hold a coordinate pair
Paired(d) == {k \in DOMAIN d : d[k] # None}

\* The keys the lookups of the current run resolved
ResolvedNow ==
    { Query(out[k].location, Region(inst)) : k \in {j \in DOMAIN rowLog : rowLog[j] = "ok"} }

\* C28: the geocode cache only grows.  A key that holds a coordinate pair in
\* the cache file holds the same pair after any step of a run; during a run
\* no pair of the in-memory cache is overwritten or removed; and the keys a
\* run adds to the file are keys whose lookup succeeded in that run.
C28_CacheOnlyGrows ==
    [][ /\ \A k \in Paired(cacheFile.data) :
              k \in Paired(cacheFile'.data) /\ cacheFile'.data[k] = cacheFile.data[k]
        /\ (pc = "run" /\ idx' # idx) =>
              \A k \in Paired(cache) : k \in DOMAIN cache' /\ cache'[k] = cache[k]
        /\ Paired(cacheFile'.data) \ Paired(cacheFile.data) \subseteq ResolvedNow
      ]_vars

\* After a run that loaded a file with one pair and resolved one more key,
\* the file holds both
C28_Witness ==
    /\ pc = "idle"
    /\ ioLog # <<>> /\ ioLog[Len(ioLog)] = "save"
    /\ rowLog = <<"ok">>
    /\ Paired(cacheFile.data) = {OtherKey} \cup ResolvedNow
    /\ cacheFile.data[OtherKey] = StalePair

-----------------------------------------------------------------------------
(* Properties of the city backfill *)

\* The table of the run before ensure_location_has_city
Unfilled ==
    LET kept == KeepValid(inst, RowsRead)
    IN [k \in DOMAIN kept |-> OutRow(inst, kept[k])]

\* The run is at the head of its geocode loop: out is the backfilled table
JustBuilt == pc = "run" /\ idx = 1

OtherFields == DOMAIN OutRow(inst, CHOOSE r \in RawRows : TRUE) \ {"location"}

\* C29: ensure_location_has_city is idempotent and changes nothing else: a
\* second application gives the table of the first; a location with a
\* comma, a blank location and every field other than the location are as
\* before; with no city for the school code no record changes.
C29_BackfillIdempotent ==
    JustBuilt =>
        LET once  == ensure_location_has_city(Unfilled, city)
            twice == ensure_location_has_city(once, city)
        IN /\ out = once
           /\ twice = once
           /\ \A k \in DOMAIN Unfilled :
                 /\ (HasComma(Unfilled[k].location) \/ IsBlank(Unfilled[k].location)) =>
                       once[k].location = Unfilled[k].location
                 /\ \A f \in OtherFields : once[k][f] = Unfilled[k][f]
           /\ city = None => once = Unfilled

\* A table with a location that gets the city and one that has a comma
C29_Witness ==
    /\ JustBuilt /\ city # None
    /\ \E k, j \in DOMAIN out :
          /\ LacksLocality(Unfilled[k].location)
          /\ out[k].location = WithCity(Unfilled[k].location)
          /\ HasComma(Unfilled[j].location)
          /\ out[j].location = Unfilled[j].location

-----------------------------------------------------------------------------
(* Properties of the geocode switches *)

\* What the current (or the last) run did with the cache file and the resolver
FileOps == {ioLog[k] : k \in DOMAIN ioLog} \cap {"load", "save"}

\* C30: with geocode off a normalizer run makes no call to the geocoding
\* service and neither reads nor writes the cache file; with geocode on and
\* the cache file off it starts from an empty in-memory cache and neither
\* reads nor writes the file, which is the same after the run as before.
C30_SwitchesBoundEffects ==
    /\ []((Built /\ ~geocode) => (extCalls = <<>> /\ ioLog = <<>>))
    /\ []((Built /\ geocode /\ ~useFile) => FileOps = {})
    /\ [][ /\ (pc = "run" /\ ~(geocode /\ useFile)) => cacheFile' = cacheFile
           /\ (pc = "idle" /\ pc' = "run") =>
                 /\ cacheFile' = cacheFile
                 /\ ~(geocode' /\ useFile') => cache' = EmptyDict ]_vars

\* A run with geocode on and the cache file off resolved a location, and the
\* cache file still holds what it held
C30_Witness ==
    /\ Returned /\ runsLeft = MaxRuns - 1
    /\ geocode /\ ~useFile
    /\ rowLog = <<"ok">>
    /\ DOMAIN cache # {}
    /\ cacheFile = [state |-> "ok", data |-> Put(EmptyDict, OtherKey, StalePair)]

====
